---- MODULE Spec2Model ----
(***************************************************************************)
(* A model of jd-core: the canonical Node data model, the structural diff  *)
(* engine (object walk, LCS list diff with context), the patch engine      *)
(* (strict and merge strategies), diff reversal and the JSON Patch / merge *)
(* renderers.                                                              *)
(*                                                                         *)
(* Numbers are integers (the f64 payload is only compared, subtracted and  *)
(* hashed), object keys are strings ordered by KeyOrder (BTreeMap order),  *)
(* and a HashCode is a structural value: the 64-bit FNV-1a digest is taken *)
(* to be collision free.                                                   *)
(***************************************************************************)
EXTENDS Integers, Sequences, FiniteSets, TLC

\* ------------------------------------------------------------------ bounds
\* longest array of scalars drawn as an input document
MaxLen == 3
\* largest number payload drawn as an input scalar
MaxNum == 2
\* longest array of nested containers drawn as an input document
MaxNest == 2
\* largest array index written into a hand-built diff element
MaxIndex == 3
\* longest hand-built diff whose elements carry metadata
MaxElems == 3
\* largest precision handed to with_precision
MaxPrecision == 1

\* ------------------------------------------------------------------ Node
Void == [t |-> "Void", v |-> 0]
Null == [t |-> "Null", v |-> 0]
Number(n) == [t |-> "Number", v |-> n]
Array(s) == [t |-> "Array", v |-> s]
Object(m) == [t |-> "Object", v |-> m]

is_void(node) == node.t = "Void"

\* BTreeMap<String, Node>: keys iterate in ascending order
KeyOrder == <<"a", "b", "c">>
EmptyMap == [k \in {} |-> Void]
MapRemove(map, key) == [k \in (DOMAIN map) \ {key} |-> map[k]]
MapInsert(map, key, value) ==
  [k \in (DOMAIN map) \cup {key} |-> IF k = key THEN value ELSE map[k]]
SortedKeys(map) == SelectSeq(KeyOrder, LAMBDA k : k \in DOMAIN map)

\* Vec helpers
Take(s, n) == SubSeq(s, 1, n)
Skip(s, n) == SubSeq(s, n + 1, Len(s))
\* the sequence left in its own order
Unreversed(s) == s
Reverse(s) == [i \in 1..Len(s) |-> s[Len(s) + 1 - i]]
Range(s) == {s[i] : i \in 1..Len(s)}
Abs(x) == IF x < 0 THEN -x ELSE x
Max(x, y) == IF x >= y THEN x ELSE y

\* ------------------------------------------------------------------ DiffOptions
\* set_keys: <<>> is None; Some(list) is never empty
DefaultOptions == [array_mode |-> "List", precision |-> 0, set_keys |-> <<>>]

\* validate without the rule on set keys
validate_precision_only(o) ==
  IF o.array_mode # "List" /\ o.precision > 0 THEN "PrecisionIncompatible" ELSE "Ok"

validate(o) ==
  IF o.array_mode # "List" /\ o.precision > 0 THEN "PrecisionIncompatible"
  ELSE IF o.set_keys # <<>> /\ o.array_mode # "Set" THEN "SetKeysRequireSetMode"
  ELSE "Ok"

\* Result<DiffOptions, OptionsError>
OptionsOk(o) == [kind |-> "Ok", options |-> o, error |-> ""]
OptionsErr(error) == [kind |-> "Err", options |-> DefaultOptions, error |-> error]
Validated(o) == IF validate(o) = "Ok" THEN OptionsOk(o) ELSE OptionsErr(validate(o))

with_array_mode(o, mode) == Validated([o EXCEPT !.array_mode = mode])

with_precision(o, precision) == Validated([o EXCEPT !.precision = precision])

\* the key names a caller may hand over, in ascending order; " " trims to nothing
SetKeyNames == <<" ", "id", "name">>
\* collected.sort(); collected.dedup()
SortDedup(keys) ==
  LET Keep(name) == \E i \in 1..Len(keys) : keys[i] = name
  IN SelectSeq(SetKeyNames, Keep)
with_set_keys(o, keys) ==
  IF \E i \in 1..Len(keys) : keys[i] = " " THEN OptionsErr("EmptySetKey")
  ELSE IF keys = <<>> THEN OptionsErr("EmptySetKey")
  ELSE Validated([o EXCEPT !.set_keys = SortDedup(keys), !.array_mode = "Set"])

\* ------------------------------------------------------------------ Number
equals_with_precision(x, y, precision) == Abs(x - y) <= precision

\* ------------------------------------------------------------------ hashing
RECURSIVE hash_code(_, _)
BagOf(s) == [h \in Range(s) |-> Cardinality({i \in 1..Len(s) : s[i] = h})]
hash_list(values, options) ==
  [t |-> "List", v |-> [i \in 1..Len(values) |-> hash_code(values[i], options)]]
hash_set(values, options) ==
  [t |-> "Set", v |-> {hash_code(values[i], options) : i \in 1..Len(values)}]
hash_multiset(values, options) ==
  [t |-> "MultiSet", v |-> BagOf([i \in 1..Len(values) |-> hash_code(values[i], options)])]
hash_object(map, options) ==
  [t |-> "Object", v |-> [k \in DOMAIN map |-> hash_code(map[k], options)]]
hash_code(node, options) ==
  CASE node.t = "Void" -> [t |-> "Void", v |-> 0]
    [] node.t = "Null" -> [t |-> "Null", v |-> 0]
    [] node.t = "Number" -> [t |-> "Number", v |-> node.v]
    [] node.t = "Array" ->
         (CASE options.array_mode = "List" -> hash_list(node.v, options)
            [] options.array_mode = "Set" -> hash_set(node.v, options)
            [] options.array_mode = "MultiSet" -> hash_multiset(node.v, options))
    [] node.t = "Object" -> hash_object(node.v, options)

\* ------------------------------------------------------------------ equality
RECURSIVE eq_with_options(_, _, _)
list_equals(lhs, rhs, options) ==
  /\ Len(lhs) = Len(rhs)
  /\ \A i \in 1..Len(lhs) : eq_with_options(lhs[i], rhs[i], options)
set_equals(lhs, rhs, options) ==
  {hash_code(lhs[i], options) : i \in 1..Len(lhs)}
    = {hash_code(rhs[i], options) : i \in 1..Len(rhs)}
multiset_equals(lhs, rhs, options) ==
  /\ Len(lhs) = Len(rhs)
  /\ BagOf([i \in 1..Len(lhs) |-> hash_code(lhs[i], options)])
       = BagOf([i \in 1..Len(rhs) |-> hash_code(rhs[i], options)])
eq_with_options(x, y, options) ==
  IF x.t # y.t THEN FALSE
  ELSE CASE x.t = "Void" -> TRUE
         [] x.t = "Null" -> TRUE
         [] x.t = "Number" -> equals_with_precision(x.v, y.v, options.precision)
         [] x.t = "Array" ->
              (CASE options.array_mode = "List" -> list_equals(x.v, y.v, options)
                 [] options.array_mode = "Set" -> set_equals(x.v, y.v, options)
                 [] options.array_mode = "MultiSet" -> multiset_equals(x.v, y.v, options))
         [] x.t = "Object" ->
              /\ Cardinality(DOMAIN x.v) = Cardinality(DOMAIN y.v)
              /\ \A k \in DOMAIN x.v :
                   k \in DOMAIN y.v /\ eq_with_options(x.v[k], y.v[k], options)

\* derived PartialEq of Node (Number compares its payload)
node_equals(lhs, rhs) == lhs = rhs

\* ------------------------------------------------------------------ Path, DiffElement
Key(k) == [t |-> "Key", v |-> k]
Index(i) == [t |-> "Index", v |-> i]
drop_last(path) == IF Len(path) = 0 THEN path ELSE Take(path, Len(path) - 1)
with_segment(path, segment) == Append(path, segment)

NoMetadata == [present |-> FALSE, merge |-> FALSE, set_keys |-> "None", color |-> "None"]
Metadata(merge, set_keys, color) ==
  [present |-> TRUE, merge |-> merge, set_keys |-> set_keys, color |-> color]

NewElement ==
  [metadata |-> NoMetadata, path |-> <<>>, before |-> <<>>, remove |-> <<>>,
   add |-> <<>>, after |-> <<>>]

\* ------------------------------------------------------------------ diff engine
RECURSIVE Flatten(_)
Flatten(seqs) == IF Len(seqs) = 0 THEN <<>> ELSE Head(seqs) \o Flatten(Tail(seqs))

\* the marker a panic of the diff engine leaves in place of a result
PanicElement == [NewElement EXCEPT !.path = <<[t |-> "Panic", v |-> 0]>>]
DiffPanicked(d) == \E i \in 1..Len(d) : Len(d[i].path) > 0 /\ d[i].path[1].t = "Panic"

RECURSIVE TableRow(_, _, _)
TableRow(lhs, rhs, i) ==
  IF i = 0 THEN [j \in 0..Len(rhs) |-> 0]
  ELSE LET prev == TableRow(lhs, rhs, i - 1)
           row[j \in 0..Len(rhs)] ==
             IF j = 0 THEN 0
             ELSE IF lhs[i] = rhs[j] THEN prev[j - 1] + 1
             ELSE Max(prev[j], row[j - 1])
       IN [j \in 0..Len(rhs) |-> row[j]]

RECURSIVE Backtrack(_, _, _, _, _)
Backtrack(lhs, rhs, table, i, j) ==
  IF ~(i > 0 /\ j > 0) THEN <<>>
  ELSE IF lhs[i] = rhs[j] THEN Append(Backtrack(lhs, rhs, table, i - 1, j - 1), lhs[i])
  ELSE IF table[i - 1][j] >= table[i][j - 1] THEN Backtrack(lhs, rhs, table, i - 1, j)
  ELSE Backtrack(lhs, rhs, table, i, j - 1)

\* longest_common_subsequence giving the left-hand hashes, common or not
longest_common_subsequence_left(lhs, rhs) == lhs

longest_common_subsequence(lhs, rhs) ==
  LET table == [i \in 0..Len(lhs) |-> TableRow(lhs, rhs, i)]
  IN Backtrack(lhs, rhs, table, Len(lhs), Len(rhs))

at_common(hashes, cursor, common) ==
  IF cursor >= Len(hashes) \/ Len(common) = 0 THEN FALSE
  ELSE hashes[cursor + 1] = common[1]

\* has_changes taking any current element for a change
has_changes_any(diff) == Len(diff) # 0

has_changes(diff) ==
  IF Len(diff) = 0 THEN FALSE ELSE Len(diff[1].add) # 0 \/ Len(diff[1].remove) # 0

\* after_context reading at the cursor, the common step not taken back
after_context_unshifted(lhs, a_cursor, common_cursor) ==
  IF a_cursor >= Len(lhs) THEN <<Void>> ELSE <<lhs[a_cursor + 1]>>

after_context(lhs, a_cursor, common_cursor) ==
  LET index == IF a_cursor >= common_cursor THEN a_cursor - common_cursor ELSE 0
  IN IF index >= Len(lhs) THEN <<Void>> ELSE <<lhs[index + 1]>>

\* path_now writing the index one past the cursor
path_now_shifted(path, path_cursor) ==
  with_segment(drop_last(path), Index(path_cursor + 1))

path_now(path, path_cursor) == with_segment(drop_last(path), Index(path_cursor))

\* the context handed to the next call taken as the start of an array
previous_node_void(rhs, b_cursor) == Void

\* list.rs:125
previous_node(rhs, b_cursor) == IF b_cursor = 0 THEN Void ELSE rhs[b_cursor]

\* same_container_type telling no two elements alike
same_container_type_never(lhs, rhs) == FALSE

same_container_type(lhs, rhs) ==
  \/ lhs.t = "Object" /\ rhs.t = "Object"
  \/ lhs.t = "Array" /\ rhs.t = "Array"

\* diff_primitives writing the left value twice, as a run of two
diff_primitives_run(lhs, rhs, path) ==
  << [NewElement EXCEPT !.path = path,
                        !.remove = IF is_void(lhs) THEN <<>> ELSE <<lhs, lhs>>,
                        !.add = IF is_void(rhs) THEN <<>> ELSE <<rhs>>] >>

diff_primitives(lhs, rhs, path) ==
  << [NewElement EXCEPT !.path = path,
                        !.remove = IF is_void(lhs) THEN <<>> ELSE <<lhs>>,
                        !.add = IF is_void(rhs) THEN <<>> ELSE <<rhs>>] >>

RECURSIVE diff_impl(_, _, _, _)
RECURSIVE diff_rest(_, _, _, _, _, _, _, _, _)
RECURSIVE RunLoop(_, _, _, _, _, _, _, _)
RECURSIVE AddRest(_, _)
RECURSIVE RemoveRest(_, _)
RECURSIVE AddUntilCommon(_, _, _, _)
RECURSIVE AddUntilCommonStill(_, _, _, _)
RECURSIVE RemoveUntilCommon(_, _, _, _)

\* list.rs:49-53
AddRest(rhs, st) ==
  IF ~(st.b_cursor < Len(rhs)) THEN st
  ELSE AddRest(rhs, [st EXCEPT !.diff[1].add = Append(@, rhs[st.b_cursor + 1]),
                               !.b_cursor = @ + 1,
                               !.path_cursor = @ + 2])
\* list.rs:57-60
RemoveRest(lhs, st) ==
  IF ~(st.a_cursor < Len(lhs)) THEN st
  ELSE RemoveRest(lhs, [st EXCEPT !.diff[1].remove = Append(@, lhs[st.a_cursor + 1]),
                                  !.a_cursor = @ + 1])
\* AddUntilCommon leaving the path cursor where it was
AddUntilCommonStill(rhs, rhs_hashes, common, st) ==
  IF at_common(rhs_hashes, st.b_cursor, common) THEN st
  ELSE IF st.b_cursor >= Len(rhs) THEN [st EXCEPT !.ctl = "panic"]
  ELSE AddUntilCommonStill(rhs, rhs_hashes, common,
         [st EXCEPT !.diff[1].add = Append(@, rhs[st.b_cursor + 1]),
                    !.b_cursor = @ + 1])

\* list.rs:73-77; reading rhs[b_cursor] past the end aborts
AddUntilCommon(rhs, rhs_hashes, common, st) ==
  IF at_common(rhs_hashes, st.b_cursor, common) THEN st
  ELSE IF st.b_cursor >= Len(rhs) THEN [st EXCEPT !.ctl = "panic"]
  ELSE AddUntilCommon(rhs, rhs_hashes, common,
         [st EXCEPT !.diff[1].add = Append(@, rhs[st.b_cursor + 1]),
                    !.b_cursor = @ + 1,
                    !.path_cursor = @ + 1])
\* list.rs:80-83; reading lhs[a_cursor] past the end aborts
RemoveUntilCommon(lhs, lhs_hashes, common, st) ==
  IF at_common(lhs_hashes, st.a_cursor, common) THEN st
  ELSE IF st.a_cursor >= Len(lhs) THEN [st EXCEPT !.ctl = "panic"]
  ELSE RemoveUntilCommon(lhs, lhs_hashes, common,
         [st EXCEPT !.diff[1].remove = Append(@, lhs[st.a_cursor + 1]),
                    !.a_cursor = @ + 1])

\* one turn of the `loop { match () { ... } }` of diff_rest
LoopStep(lhs, rhs, path, lhs_hashes, rhs_hashes, common, options, st) ==
  CASE st.a_cursor = Len(lhs) ->
         [AddRest(rhs, st) EXCEPT !.ctl = "break"]
    [] st.a_cursor # Len(lhs) /\ st.b_cursor = Len(rhs) ->
         [RemoveRest(lhs, st) EXCEPT !.ctl = "break"]
    [] OTHER ->
         IF at_common(lhs_hashes, st.a_cursor, common)
              /\ at_common(rhs_hashes, st.b_cursor, common)
         THEN [st EXCEPT !.a_cursor = @ + 1, !.b_cursor = @ + 1,
                         !.common_cursor = @ + 1, !.path_cursor = @ + 1,
                         !.ctl = "break"]
         ELSE IF at_common(lhs_hashes, st.a_cursor, common)
         THEN AddUntilCommon(rhs, rhs_hashes, common, st)
         ELSE IF at_common(rhs_hashes, st.b_cursor, common)
         THEN RemoveUntilCommon(lhs, lhs_hashes, common, st)
         ELSE IF same_container_type(lhs[st.a_cursor + 1], rhs[st.b_cursor + 1])
         THEN LET sub_path == path_now(path, st.path_cursor)
                  sub_diff == diff_impl(lhs[st.a_cursor + 1], rhs[st.b_cursor + 1],
                                        sub_path, options)
              IN [st EXCEPT
                    !.diff = IF has_changes(st.diff)
                             THEN [st.diff EXCEPT ![1].after =
                                     after_context(lhs, st.a_cursor, st.common_cursor)]
                                  \o sub_diff
                             ELSE sub_diff,
                    !.a_cursor = @ + 1, !.b_cursor = @ + 1, !.path_cursor = @ + 1,
                    !.ctl = "break"]
         ELSE [st EXCEPT !.diff[1].remove = Append(@, lhs[st.a_cursor + 1]),
                         !.diff[1].add = Append(@, rhs[st.b_cursor + 1]),
                         !.a_cursor = @ + 1, !.b_cursor = @ + 1, !.path_cursor = @ + 1]

RunLoop(lhs, rhs, path, lhs_hashes, rhs_hashes, common, options, st) ==
  IF st.ctl # "loop" THEN st
  ELSE RunLoop(lhs, rhs, path, lhs_hashes, rhs_hashes, common, options,
               LoopStep(lhs, rhs, path, lhs_hashes, rhs_hashes, common, options, st))

diff_rest(lhs, rhs, path_index, path, lhs_hashes, rhs_hashes, common, previous, options) ==
  LET path_len == Len(path)
      start == [a_cursor |-> 0, b_cursor |-> 0, common_cursor |-> 0,
                path_cursor |-> path_index,
                diff |-> << [NewElement EXCEPT !.path = path_now(path, path_index),
                                               !.before = <<previous>>] >>,
                ctl |-> "loop"]
      st == RunLoop(lhs, rhs, path, lhs_hashes, rhs_hashes, common, options, start)
      single == Len(st.diff) < 2
      diff == IF ~has_changes(st.diff) THEN <<>>
              ELSE IF Len(st.diff[1].path) <= path_len /\ single
              THEN [st.diff EXCEPT ![1].after =
                      after_context(lhs, st.a_cursor, st.common_cursor)]
              ELSE st.diff
  IN IF st.ctl = "panic" THEN <<PanicElement>>
     ELSE IF st.a_cursor = Len(lhs) /\ st.b_cursor = Len(rhs) THEN diff
     ELSE diff \o diff_rest(Skip(lhs, st.a_cursor), Skip(rhs, st.b_cursor),
                             st.path_cursor, path_now(path, st.path_cursor),
                             Skip(lhs_hashes, st.a_cursor), Skip(rhs_hashes, st.b_cursor),
                             Skip(common, st.common_cursor),
                             previous_node(rhs, st.b_cursor), options)

diff_lists(lhs, rhs, path, options) ==
  LET lhs_hashes == [i \in 1..Len(lhs) |-> hash_code(lhs[i], options)]
      rhs_hashes == [i \in 1..Len(rhs) |-> hash_code(rhs[i], options)]
      common == longest_common_subsequence(lhs_hashes, rhs_hashes)
      path_with_placeholder == with_segment(path, Index(0))
  IN diff_rest(lhs, rhs, 0, path_with_placeholder, lhs_hashes, rhs_hashes, common,
               Void, options)

\* diff_objects emitting the right-only keys first
diff_objects_adds_first(lhs, rhs, path, options) ==
  LET lhs_keys == SortedKeys(lhs)
      rhs_keys == SelectSeq(SortedKeys(rhs), LAMBDA k : k \notin DOMAIN lhs)
  IN [i \in 1..Len(rhs_keys) |->
        [NewElement EXCEPT !.path = with_segment(path, Key(rhs_keys[i])),
                           !.add = <<rhs[rhs_keys[i]]>>]]
     \o Flatten([i \in 1..Len(lhs_keys) |->
                IF lhs_keys[i] \in DOMAIN rhs
                THEN diff_impl(lhs[lhs_keys[i]], rhs[lhs_keys[i]],
                               with_segment(path, Key(lhs_keys[i])), options)
                ELSE << [NewElement EXCEPT !.path = with_segment(path, Key(lhs_keys[i])),
                                           !.remove = <<lhs[lhs_keys[i]]>>] >>])

diff_objects(lhs, rhs, path, options) ==
  LET lhs_keys == SortedKeys(lhs)
      rhs_keys == SelectSeq(SortedKeys(rhs), LAMBDA k : k \notin DOMAIN lhs)
  IN Flatten([i \in 1..Len(lhs_keys) |->
                IF lhs_keys[i] \in DOMAIN rhs
                THEN diff_impl(lhs[lhs_keys[i]], rhs[lhs_keys[i]],
                               with_segment(path, Key(lhs_keys[i])), options)
                ELSE << [NewElement EXCEPT !.path = with_segment(path, Key(lhs_keys[i])),
                                           !.remove = <<lhs[lhs_keys[i]]>>] >>])
     \o [i \in 1..Len(rhs_keys) |->
           [NewElement EXCEPT !.path = with_segment(path, Key(rhs_keys[i])),
                              !.add = <<rhs[rhs_keys[i]]>>]]

diff_impl(lhs, rhs, path, options) ==
  IF eq_with_options(lhs, rhs, options) THEN <<>>
  ELSE IF lhs.t = "Object" /\ rhs.t = "Object"
  THEN diff_objects(lhs.v, rhs.v, path, options)
  ELSE IF lhs.t = "Array" /\ rhs.t = "Array"
  THEN (IF options.array_mode = "List" THEN diff_lists(lhs.v, rhs.v, path, options)
        ELSE <<PanicElement>>)
  ELSE diff_primitives(lhs, rhs, path)

diff_nodes(lhs, rhs, options) == diff_impl(lhs, rhs, <<>>, options)

\* ------------------------------------------------------------------ DiffMetadata
\* is_effective overlooking the merge flag
is_effective_unmerged(m) == m.set_keys # "None" \/ m.color # "None"

is_effective(m) == m.merge \/ m.set_keys # "None" \/ m.color # "None"

\* absorb overwriting the merge flag as it overwrites the other fields
absorb_overwrite(self, other) ==
  [self EXCEPT !.merge = other.merge,
               !.set_keys = IF other.set_keys # "None" THEN other.set_keys ELSE @,
               !.color = IF other.color # "None" THEN other.color ELSE @]

absorb(self, other) ==
  [self EXCEPT !.merge = IF other.merge THEN TRUE ELSE @,
               !.set_keys = IF other.set_keys # "None" THEN other.set_keys ELSE @,
               !.color = IF other.color # "None" THEN other.color ELSE @]

\* ------------------------------------------------------------------ patch engine
\* Result<Node, PatchError>; "Panic" is an abort on an out-of-range access
Ok(node) == [kind |-> "Ok", node |-> node, msg |-> ""]
Err(msg) == [kind |-> "Err", node |-> Void, msg |-> msg]
Panic == [kind |-> "Panic", node |-> Void, msg |-> "index out of bounds"]

from_metadata(metadata) ==
  IF metadata.present /\ metadata.merge THEN "Merge" ELSE "Strict"

single_value(values) == IF Len(values) = 0 THEN Void ELSE values[1]

non_set_diff_error(old_values, new_values) ==
  IF Len(old_values) > 1 THEN Err("invalid diff: multiple removals from non-set")
  ELSE Err("invalid diff: multiple additions to a non-set")

\* patch_scalar without the Merge arm's look at the old value
patch_scalar_unchecked(node, path_ahead, before, old_values, new_values, after, strategy) ==
  IF Len(path_ahead) # 0 THEN Err("expected collection")
  ELSE IF Len(old_values) > 1 \/ Len(new_values) > 1
  THEN non_set_diff_error(old_values, new_values)
  ELSE LET old_value == single_value(old_values)
           new_value == single_value(new_values)
       IN IF strategy = "Merge" THEN Ok(new_value)
          ELSE (IF ~node_equals(node, old_value) THEN Err("expected value")
                ELSE Ok(new_value))

patch_scalar(node, path_ahead, before, old_values, new_values, after, strategy) ==
  IF Len(path_ahead) # 0 THEN Err("expected collection")
  ELSE IF Len(old_values) > 1 \/ Len(new_values) > 1
  THEN non_set_diff_error(old_values, new_values)
  ELSE LET old_value == single_value(old_values)
           new_value == single_value(new_values)
       IN IF strategy = "Merge"
          THEN (IF ~is_void(old_value) THEN Err("unnecessary old value")
                ELSE Ok(new_value))
          ELSE (IF ~node_equals(node, old_value) THEN Err("expected value")
                ELSE Ok(new_value))

\* patch.rs:352-372, the walk over the before context
RECURSIVE CheckBefore(_, _, _, _)
CheckBefore(original, raw_index, before, offset) ==
  IF offset >= Len(before) THEN "Ok"
  ELSE LET context == before[offset + 1]
           distance == Len(before) - offset
           check_index == raw_index - distance
       IN IF check_index < 0
          THEN (IF check_index = -1 /\ is_void(context)
                THEN CheckBefore(original, raw_index, before, offset + 1)
                ELSE "before context out of bounds")
          ELSE IF check_index >= Len(original) THEN "Panic"
          ELSE IF ~node_equals(original[check_index + 1], context)
          THEN "expected before"
          ELSE CheckBefore(original, raw_index, before, offset + 1)

\* the removals at insertion_index, taken without a look at what is removed
RECURSIVE RemoveLoopUnverified(_, _, _, _)
RemoveLoopUnverified(working, insertion_index, remove, k) ==
  IF k > Len(remove) THEN [status |-> "Ok", working |-> working]
  ELSE IF insertion_index >= Len(working) THEN [status |-> "Panic", working |-> working]
  ELSE RemoveLoopUnverified(Take(working, insertion_index)
                              \o Skip(working, insertion_index + 1),
                            insertion_index, remove, k + 1)

\* patch.rs:379-388, the removals at insertion_index
RECURSIVE RemoveLoop(_, _, _, _)
RemoveLoop(working, insertion_index, remove, k) ==
  IF k > Len(remove) THEN [status |-> "Ok", working |-> working]
  ELSE IF insertion_index >= Len(working) THEN [status |-> "Panic", working |-> working]
  ELSE IF ~node_equals(working[insertion_index + 1], remove[k])
  THEN [status |-> "wanted found", working |-> working]
  ELSE RemoveLoop(Take(working, insertion_index) \o Skip(working, insertion_index + 1),
                  insertion_index, remove, k + 1)

\* patch.rs:400-418, the walk over the after context
RECURSIVE CheckAfter(_, _, _, _)
CheckAfter(working, insertion_index, after, offset) ==
  IF offset >= Len(after) THEN "Ok"
  ELSE LET context == after[offset + 1]
           check_index == insertion_index + offset
       IN IF check_index >= Len(working)
          THEN (IF check_index = Len(working) /\ is_void(context)
                THEN CheckAfter(working, insertion_index, after, offset + 1)
                ELSE "after context out of bounds")
          ELSE IF ~node_equals(working[check_index + 1], context)
          THEN "expected after"
          ELSE CheckAfter(working, insertion_index, after, offset + 1)

RECURSIVE patch_element(_, _, _, _, _, _, _)

patch_object(map, path_ahead, before, old_values, new_values, after, strategy) ==
  IF Len(path_ahead) = 0
  THEN IF Len(old_values) > 1 \/ Len(new_values) > 1
       THEN non_set_diff_error(old_values, new_values)
       ELSE LET new_value == single_value(new_values)
                old_value == single_value(old_values)
            IN IF strategy = "Merge" THEN Ok(new_value)
               ELSE IF ~node_equals(Object(map), old_value) THEN Err("expected value")
               ELSE Ok(new_value)
  ELSE LET segment == path_ahead[1]
           rest == Tail(path_ahead)
       IN IF segment.t # "Key" THEN Err("expected JSON object")
          ELSE LET key == segment.v
                   next == IF key \in DOMAIN map THEN map[key]
                           ELSE IF strategy = "Merge"
                           THEN (IF Len(rest) = 0 THEN Void ELSE Object(EmptyMap))
                           ELSE Void
                   patched == patch_element(next, rest, <<>>, old_values, new_values,
                                            <<>>, strategy)
               IN IF patched.kind # "Ok" THEN patched
                  ELSE IF is_void(patched.node) THEN Ok(Object(MapRemove(map, key)))
                  ELSE Ok(Object(MapInsert(map, key, patched.node)))

patch_list(list, path_ahead, before, remove, add, after, strategy) ==
  IF strategy = "Merge"
  THEN patch_scalar(Array(list), path_ahead, before, remove, add, after, strategy)
  ELSE IF Len(path_ahead) = 0
  THEN (IF Len(remove) > 1 \/ Len(add) > 1
        THEN Err("cannot replace list with multiple values")
        ELSE IF Len(remove) = 0 THEN Err("invalid diff. must declare list to replace it")
        ELSE IF ~node_equals(Array(list), remove[1]) THEN Err("wanted found")
        ELSE IF Len(add) = 0 THEN Ok(Void)
        ELSE Ok(add[1]))
  ELSE LET segment == path_ahead[1]
           rest == Tail(path_ahead)
           raw_index == segment.v
       IN IF segment.t # "Index" THEN Err("invalid path element")
          ELSE IF Len(rest) # 0
          THEN (IF raw_index < 0 \/ raw_index >= Len(list)
                THEN Err("patch index out of bounds")
                ELSE LET child == list[raw_index + 1]
                         patched == patch_element(child, rest, <<>>, remove, add, <<>>,
                                                  strategy)
                     IN IF patched.kind # "Ok" THEN patched
                        ELSE Ok(Array([list EXCEPT ![raw_index + 1] = patched.node])))
          ELSE IF raw_index = -1
          THEN (IF Len(remove) # 0 THEN Err("appending to -1 index")
                ELSE Ok(Array(list \o add)))
          ELSE IF raw_index < 0 THEN Err("patch index out of bounds")
          ELSE LET insertion_index == raw_index
                   original == list
                   checked_before == CheckBefore(original, raw_index, before, 0)
                   removed == IF Len(remove) # 0
                              THEN (IF insertion_index >= Len(original)
                                    THEN [status |-> "remove values out bounds",
                                          working |-> original]
                                    ELSE RemoveLoop(original, insertion_index, remove, 1))
                              ELSE [status |-> "Ok", working |-> original]
                   working == removed.working
                   result == Take(working, insertion_index) \o add
                               \o Skip(working, insertion_index)
                   checked_after == CheckAfter(working, insertion_index, after, 0)
               IN IF checked_before = "Panic" THEN Panic
                  ELSE IF checked_before # "Ok" THEN Err(checked_before)
                  ELSE IF removed.status = "Panic" THEN Panic
                  ELSE IF removed.status # "Ok" THEN Err(removed.status)
                  ELSE IF insertion_index > Len(working)
                  THEN Err("remove values out bounds")
                  ELSE IF checked_after # "Ok" THEN Err(checked_after)
                  ELSE Ok(Array(result))

patch_element(node, path_ahead, before, remove, add, after, strategy) ==
  IF Len(path_ahead) # 0 /\ strategy = "Merge"
  THEN LET segment == path_ahead[1]
           rest == Tail(path_ahead)
           key == segment.v
       IN IF segment.t # "Key" THEN Err("expected collection")
          ELSE IF node.t = "Object"
          THEN LET existing == IF key \in DOMAIN node.v THEN node.v[key]
                               ELSE IF Len(rest) = 0 THEN Void ELSE Object(EmptyMap)
                   map == MapRemove(node.v, key)
                   patched == patch_element(existing, rest, before, remove, add, after,
                                            strategy)
               IN IF patched.kind # "Ok" THEN patched
                  ELSE IF is_void(patched.node) /\ Len(rest) = 0 THEN Ok(Object(map))
                  ELSE IF ~is_void(patched.node) \/ Len(rest) # 0
                  THEN Ok(Object(MapInsert(map, key, patched.node)))
                  ELSE Ok(Object(map))
          ELSE LET seed == IF Len(rest) = 0 THEN Void ELSE Object(EmptyMap)
                   patched == patch_element(seed, rest, before, remove, add, after,
                                            strategy)
               IN IF patched.kind # "Ok" THEN patched
                  ELSE IF ~is_void(patched.node) \/ Len(rest) # 0
                  THEN Ok(Object(MapInsert(EmptyMap, key, patched.node)))
                  ELSE Ok(Object(EmptyMap))
  ELSE CASE node.t = "Array" ->
              patch_list(node.v, path_ahead, before, remove, add, after, strategy)
         [] node.t = "Object" ->
              patch_object(node.v, path_ahead, before, remove, add, after, strategy)
         [] OTHER ->
              IF Len(path_ahead) # 0 THEN Err("expected collection")
              ELSE patch_scalar(node, path_ahead, before, remove, add, after, strategy)

\* one turn of the `for element in diff.iter()` loop of apply_patch
ApplyStart(node) ==
  [current |-> node, inherited_metadata |-> NoMetadata, strategy |-> "Strict",
   outcome |-> Ok(node)]

ApplyElement(st, element) ==
  LET inherited ==
        IF element.metadata.present /\ is_effective(element.metadata)
        THEN (IF st.inherited_metadata.present
              THEN absorb(st.inherited_metadata, element.metadata)
              ELSE element.metadata)
        ELSE st.inherited_metadata
      metadata == IF inherited.present /\ is_effective(inherited) THEN inherited
                  ELSE NoMetadata
      strategy == from_metadata(metadata)
      patched == patch_element(st.current, element.path, element.before, element.remove,
                               element.add, element.after, strategy)
  IN [current |-> IF patched.kind = "Ok" THEN patched.node ELSE st.current,
      inherited_metadata |-> inherited,
      strategy |-> strategy,
      outcome |-> patched]

RECURSIVE ApplyFrom(_, _, _)
ApplyFrom(st, diff, k) ==
  IF k > Len(diff) THEN st
  ELSE LET next == ApplyElement(st, diff[k])
       IN IF next.outcome.kind # "Ok" THEN next ELSE ApplyFrom(next, diff, k + 1)

apply_patch(node, diff) == ApplyFrom(ApplyStart(node), diff, 1).outcome

\* ------------------------------------------------------------------ reverse
\* Result<Diff, RenderError>
DiffOk(d) == [kind |-> "Ok", diff |-> d, msg |-> ""]
DiffErr(msg) == [kind |-> "Err", diff |-> <<>>, msg |-> msg]

\* diff/mod.rs:471-483, the prefix scan of the effective metadata
RECURSIVE ActiveMetadata(_, _, _)
ActiveMetadata(elements, k, inherited) ==
  IF k > Len(elements) THEN <<>>
  ELSE LET metadata == elements[k].metadata
           next == IF metadata.present /\ is_effective(metadata)
                   THEN (IF inherited.present THEN absorb(inherited, metadata)
                         ELSE metadata)
                   ELSE inherited
       IN <<next>> \o ActiveMetadata(elements, k + 1, next)

\* diff/mod.rs:488-514, the walk from the last element to the first
RECURSIVE ReverseFrom(_, _, _, _)
ReverseFrom(elements, active_metadata, index, last_emitted) ==
  IF index < 1 THEN DiffOk(<<>>)
  ELSE LET element == elements[index]
           metadata == active_metadata[index]
           swapped == [element EXCEPT !.remove = element.add, !.add = element.remove]
           emit == metadata.present /\ last_emitted # metadata
           clone == [swapped EXCEPT !.metadata = IF emit THEN metadata ELSE NoMetadata]
           last == IF metadata.present
                   THEN (IF emit THEN metadata ELSE last_emitted)
                   ELSE NoMetadata
           rest == ReverseFrom(elements, active_metadata, index - 1, last)
       IN IF metadata.present /\ metadata.merge
          THEN DiffErr("cannot reverse merge diff element")
          ELSE IF rest.kind # "Ok" THEN rest
          ELSE DiffOk(<<clone>> \o rest.diff)

\* reverse swapping each element but leaving the elements in forward order
reverse_forward(elements) ==
  IF Len(elements) = 0 THEN DiffOk(<<>>)
  ELSE LET result == ReverseFrom(elements, ActiveMetadata(elements, 1, NoMetadata),
                                 Len(elements), NoMetadata)
       IN IF result.kind # "Ok" THEN result ELSE DiffOk(Reverse(result.diff))

reverse(elements) ==
  IF Len(elements) = 0 THEN DiffOk(<<>>)
  ELSE ReverseFrom(elements, ActiveMetadata(elements, 1, NoMetadata), Len(elements),
                   NoMetadata)

\* ------------------------------------------------------------------ JSON values
JNull == [t |-> "null", v |-> 0]
JNumber(n) == [t |-> "number", v |-> n]
JArray(s) == [t |-> "array", v |-> s]
JObject(m) == [t |-> "object", v |-> m]
\* no document (Option::None of to_json_value, the target of a removed root)
JNone == [t |-> "none", v |-> 0]

RECURSIVE to_json_value(_)
to_json_value(node) ==
  CASE node.t = "Void" -> JNone
    [] node.t = "Null" -> JNull
    [] node.t = "Number" -> JNumber(node.v)
    [] node.t = "Array" ->
         LET values == [i \in 1..Len(node.v) |-> to_json_value(node.v[i])]
         IN IF \E i \in 1..Len(values) : values[i] = JNone THEN JNone
            ELSE JArray(values)
    [] node.t = "Object" ->
         LET values == [k \in DOMAIN node.v |-> to_json_value(node.v[k])]
         IN IF \E k \in DOMAIN values : values[k] = JNone THEN JNone
            ELSE JObject(values)

\* ------------------------------------------------------------------ render_patch
\* Result<Vec<PatchElement>, RenderError>
OpsOk(ops) == [kind |-> "Ok", ops |-> ops, msg |-> ""]
OpsErr(msg) == [kind |-> "Err", ops |-> <<>>, msg |-> msg]

PatchElement(op, path, value) == [op |-> op, path |-> path, value |-> value]

\* object keys that str::parse::<i64> accepts
IntegerKeys == {"0", "1", "-1", "+1"}

\* a JSON Pointer is the sequence of its reference tokens; PointerErr marks Err
PointerErr == <<"!">>
\* str::replace('~', "~0").replace('/', "~1") on the keys of the model
escape_pointer_segment(segment) ==
  CASE segment = "a/b" -> "a~1b"
    [] segment = "a~b" -> "a~0b"
    [] OTHER -> segment
\* path_to_pointer letting through the keys that parse as integers
RECURSIVE path_to_pointer_lenient(_)
path_to_pointer_lenient(path) ==
  IF Len(path) = 0 THEN <<>>
  ELSE LET segment == path[Len(path)]
           front == path_to_pointer_lenient(drop_last(path))
           token == IF segment.t = "Index"
                    THEN (IF segment.v = -1 THEN "-" ELSE ToString(segment.v))
                    ELSE escape_pointer_segment(segment.v)
       IN IF front = PointerErr THEN PointerErr
          ELSE IF segment.t = "Key" /\ segment.v = "-" THEN PointerErr
          ELSE Append(front, token)

RECURSIVE path_to_pointer(_)
path_to_pointer(path) ==
  IF Len(path) = 0 THEN <<>>
  ELSE LET segment == path[Len(path)]
           front == path_to_pointer(drop_last(path))
           token == IF segment.t = "Index"
                    THEN (IF segment.v = -1 THEN "-" ELSE ToString(segment.v))
                    ELSE escape_pointer_segment(segment.v)
       IN IF front = PointerErr THEN PointerErr
          ELSE IF segment.t = "Key" /\ (segment.v \in IntegerKeys \/ segment.v = "-")
          THEN PointerErr
          ELSE Append(front, token)

\* the operations one element contributes, diff/mod.rs:324-399
\* next_index taken at the hunk's own index, the removed run not skipped
next_index_unshifted(index, remove) == index

\* diff/mod.rs:366, the index the after context is tested at
next_index(index, remove) == index + Len(remove)

render_patch_element(element) ==
  LET pointer == path_to_pointer(element.path)
      last == element.path[Len(element.path)]
      ContextTest(context, index) ==
        IF is_void(context) THEN OpsOk(<<>>)
        ELSE IF Len(element.path) = 0 THEN OpsErr("expected path. got empty path")
        ELSE IF last.t # "Index" THEN OpsErr("wanted path index. got object key")
        ELSE IF to_json_value(context) = JNone
        THEN OpsErr("cannot encode void value in JSON Patch")
        ELSE OpsOk(<<PatchElement("test",
                       path_to_pointer(with_segment(drop_last(element.path), Index(index))),
                       to_json_value(context))>>)
      before_ops == IF Len(element.before) = 0 THEN OpsOk(<<>>)
                    ELSE ContextTest(element.before[1], last.v - 1)
      after_ops == IF Len(element.after) = 0 THEN OpsOk(<<>>)
                   ELSE ContextTest(element.after[1], next_index(last.v, element.remove))
      remove_ops ==
        IF Len(element.remove) > 0 /\ is_void(element.remove[1]) THEN OpsOk(<<>>)
        ELSE IF \E i \in 1..Len(element.remove) : to_json_value(element.remove[i]) = JNone
        THEN OpsErr("cannot encode void value in JSON Patch")
        ELSE OpsOk(Flatten([i \in 1..Len(element.remove) |->
               <<PatchElement("test", pointer, to_json_value(element.remove[i])),
                 PatchElement("remove", pointer, to_json_value(element.remove[i]))>>]))
      adds == SelectSeq(Reverse(element.add), LAMBDA value : ~is_void(value))
      add_ops ==
        IF \E i \in 1..Len(adds) : to_json_value(adds[i]) = JNone
        THEN OpsErr("cannot encode void value in JSON Patch")
        ELSE OpsOk([i \in 1..Len(adds) |->
                      PatchElement("add", pointer, to_json_value(adds[i]))])
  IN IF Len(element.remove) = 0 /\ Len(element.add) = 0
     THEN OpsErr("cannot render empty diff element as JSON Patch op")
     ELSE IF pointer = PointerErr THEN OpsErr("JSON Pointer does not support object key")
     ELSE IF Len(element.before) > 1
     THEN OpsErr("only one line of before context supported")
     ELSE IF before_ops.kind # "Ok" THEN before_ops
     ELSE IF Len(element.after) > 1
     THEN OpsErr("only one line of after context supported")
     ELSE IF after_ops.kind # "Ok" THEN after_ops
     ELSE IF remove_ops.kind # "Ok" THEN remove_ops
     ELSE IF add_ops.kind # "Ok" THEN add_ops
     ELSE OpsOk(before_ops.ops \o after_ops.ops \o remove_ops.ops \o add_ops.ops)

RECURSIVE render_patch_from(_, _)
render_patch_from(elements, k) ==
  IF k > Len(elements) THEN OpsOk(<<>>)
  ELSE LET head == render_patch_element(elements[k])
           rest == render_patch_from(elements, k + 1)
       IN IF head.kind # "Ok" THEN head
          ELSE IF rest.kind # "Ok" THEN rest
          ELSE OpsOk(head.ops \o rest.ops)

render_patch(elements) ==
  IF Len(elements) = 0 THEN OpsOk(<<>>) ELSE render_patch_from(elements, 1)

\* ------------------------------------------------------------------ render_merge
\* Result<JsonValue, RenderError>
JsonOk(value) == [kind |-> "Ok", value |-> value, msg |-> ""]
JsonErr(msg) == [kind |-> "Err", value |-> JNone, msg |-> msg]

\* diff/mod.rs:424-439: the merge flag render_merge reads for each element
RECURSIVE MergeFlags(_, _, _)
MergeFlags(elements, k, inherited) ==
  IF k > Len(elements) THEN <<>>
  ELSE LET metadata == elements[k].metadata
           next == IF metadata.present THEN metadata ELSE inherited
           is_merge == IF metadata.present THEN metadata.merge ELSE next.merge
       IN <<is_merge>> \o MergeFlags(elements, k + 1, next)

render_merge(elements) ==
  IF Len(elements) = 0 THEN JsonOk(JObject(EmptyMap))
  ELSE LET flags == MergeFlags(elements, 1, NoMetadata)
           normalized ==
             [k \in 1..Len(elements) |->
                [elements[k] EXCEPT !.add =
                   [i \in 1..Len(elements[k].add) |->
                      IF is_void(elements[k].add[i]) THEN Null ELSE elements[k].add[i]]]]
           patched == apply_patch(Void, normalized)
       IN IF \E k \in 1..Len(flags) : ~flags[k]
          THEN JsonErr("cannot render non-merge element as merge")
          ELSE IF patched.kind = "Panic" THEN [JsonErr("index out of bounds") EXCEPT !.kind = "Panic"]
          ELSE IF patched.kind # "Ok" THEN JsonErr(patched.msg)
          ELSE IF to_json_value(patched.node) = JNone
          THEN JsonErr("merge patch produced void value")
          ELSE JsonOk(to_json_value(patched.node))

\* ------------------------------------------------------------------ native renderer
\* The text is a sequence of lines: the marker (^, @, [, ], two blanks, -, +), the
\* value written after it, and whether the line is wrapped in colour codes.  The
\* character-level colouring of a string replaced by a string is left out: the
\* model has no String node.
Line(marker, value, colored) == [t |-> marker, v |-> value, colored |-> colored]

render_header(metadata) ==
  IF metadata.merge THEN <<Line("^", "{\"Merge\":true}", FALSE)>> ELSE <<>>

render_element_native(element, config, is_merge) ==
  LET ContextLine(context, edge) ==
        IF is_void(context) THEN Line(edge, Void, FALSE) ELSE Line("  ", context, FALSE)
      before == [i \in 1..Len(element.before) |-> ContextLine(element.before[i], "[")]
      removed == SelectSeq(element.remove, LAMBDA value : ~is_void(value))
      remove == [i \in 1..Len(removed) |-> Line("-", removed[i], config.color)]
      added == SelectSeq(element.add, LAMBDA value : ~is_void(value) \/ is_merge)
      add == [i \in 1..Len(added) |-> Line("+", added[i], config.color)]
      after == [i \in 1..Len(element.after) |-> ContextLine(element.after[i], "]")]
  IN <<Line("@", element.path, FALSE)>> \o before \o remove \o add \o after

RECURSIVE RenderFrom(_, _, _, _)
RenderFrom(elements, config, index, inherited) ==
  IF index > Len(elements) THEN <<>>
  ELSE LET element == elements[index]
           header == IF element.metadata.present THEN render_header(element.metadata)
                     ELSE <<>>
           next == IF element.metadata.present THEN element.metadata ELSE inherited
           is_merge == IF element.metadata.present THEN element.metadata.merge
                       ELSE next.merge
       IN header \o render_element_native(element, config, is_merge)
            \o RenderFrom(elements, config, index + 1, next)

render(elements, config) == RenderFrom(elements, config, 1, NoMetadata)

\* ------------------------------------------------------------------ RFC 6902
\* The reference semantics of a JSON Patch document (RFC 6902 over RFC 6901
\* pointers), against which the output of render_patch is judged.
RfcOk(doc) == [ok |-> TRUE, doc |-> doc]
RfcFail == [ok |-> FALSE, doc |-> JNone]

ArrayIndex(token, len) ==
  IF \E i \in 0..len : ToString(i) = token
  THEN CHOOSE i \in 0..len : ToString(i) = token
  ELSE -1

RECURSIVE RfcGet(_, _)
RfcGet(doc, pointer) ==
  IF Len(pointer) = 0 THEN doc
  ELSE LET token == Head(pointer)
       IN CASE doc.t = "object" ->
                 IF token \in DOMAIN doc.v THEN RfcGet(doc.v[token], Tail(pointer))
                 ELSE JNone
            [] doc.t = "array" ->
                 LET i == ArrayIndex(token, Len(doc.v))
                 IN IF i >= 0 /\ i < Len(doc.v) THEN RfcGet(doc.v[i + 1], Tail(pointer))
                    ELSE JNone
            [] OTHER -> JNone

RECURSIVE RfcRemove(_, _)
RfcRemove(doc, pointer) ==
  IF doc = JNone THEN RfcFail
  ELSE IF Len(pointer) = 0 THEN RfcOk(JNone)
  ELSE LET token == Head(pointer)
       IN CASE doc.t = "object" ->
                 IF token \notin DOMAIN doc.v THEN RfcFail
                 ELSE IF Len(pointer) = 1 THEN RfcOk(JObject(MapRemove(doc.v, token)))
                 ELSE LET sub == RfcRemove(doc.v[token], Tail(pointer))
                      IN IF sub.ok THEN RfcOk(JObject(MapInsert(doc.v, token, sub.doc)))
                         ELSE RfcFail
            [] doc.t = "array" ->
                 LET i == ArrayIndex(token, Len(doc.v))
                 IN IF ~(i >= 0 /\ i < Len(doc.v)) THEN RfcFail
                    ELSE IF Len(pointer) = 1
                    THEN RfcOk(JArray(Take(doc.v, i) \o Skip(doc.v, i + 1)))
                    ELSE LET sub == RfcRemove(doc.v[i + 1], Tail(pointer))
                         IN IF sub.ok THEN RfcOk(JArray([doc.v EXCEPT ![i + 1] = sub.doc]))
                            ELSE RfcFail
            [] OTHER -> RfcFail

RECURSIVE RfcAdd(_, _, _)
RfcAdd(doc, pointer, value) ==
  IF Len(pointer) = 0 THEN RfcOk(value)
  ELSE LET token == Head(pointer)
       IN CASE doc.t = "object" ->
                 IF Len(pointer) = 1 THEN RfcOk(JObject(MapInsert(doc.v, token, value)))
                 ELSE IF token \notin DOMAIN doc.v THEN RfcFail
                 ELSE LET sub == RfcAdd(doc.v[token], Tail(pointer), value)
                      IN IF sub.ok THEN RfcOk(JObject(MapInsert(doc.v, token, sub.doc)))
                         ELSE RfcFail
            [] doc.t = "array" ->
                 LET i == IF token = "-" /\ Len(pointer) = 1 THEN Len(doc.v)
                          ELSE ArrayIndex(token, Len(doc.v))
                 IN IF Len(pointer) = 1
                    THEN (IF i >= 0 /\ i <= Len(doc.v)
                          THEN RfcOk(JArray(Take(doc.v, i) \o <<value>> \o Skip(doc.v, i)))
                          ELSE RfcFail)
                    ELSE IF ~(i >= 0 /\ i < Len(doc.v)) THEN RfcFail
                    ELSE LET sub == RfcAdd(doc.v[i + 1], Tail(pointer), value)
                         IN IF sub.ok THEN RfcOk(JArray([doc.v EXCEPT ![i + 1] = sub.doc]))
                            ELSE RfcFail
            [] OTHER -> RfcFail

RfcOperation(doc, operation) ==
  CASE operation.op = "test" ->
         IF doc # JNone /\ RfcGet(doc, operation.path) = operation.value THEN RfcOk(doc)
         ELSE RfcFail
    [] operation.op = "remove" -> RfcRemove(doc, operation.path)
    [] operation.op = "add" -> RfcAdd(doc, operation.path, operation.value)

RECURSIVE RfcApply(_, _, _)
RfcApply(doc, ops, k) ==
  IF k > Len(ops) THEN RfcOk(doc)
  ELSE LET next == RfcOperation(doc, ops[k])
       IN IF ~next.ok THEN RfcFail ELSE RfcApply(next.doc, ops, k + 1)

\* ------------------------------------------------------------------ command line
\* Result<i32> of try_main and run_diff; Panic is a thread that unwound
CliOk(code) == [kind |-> "Ok", code |-> code, msg |-> ""]
CliErr(msg) == [kind |-> "Err", code |-> 0, msg |-> msg]
CliPanic == [kind |-> "Panic", code |-> 0, msg |-> "not implemented in diff engine"]
Running == [kind |-> "Running", code |-> 0, msg |-> ""]

\* what a positional argument or the standard input holds: no path at all (the
\* empty string), a path nothing can be read from, a text no parser accepts, or
\* the text of a document
NoPath == [t |-> "NoPath", v |-> Void]
Missing == [t |-> "Missing", v |-> Void]
Garbage == [t |-> "Garbage", v |-> Void]
Text(node) == [t |-> "Text", v |-> node]

path_from(input) ==
  IF input.t = "NoPath" THEN CliErr("expected file path; got empty string") ELSE CliOk(0)
read_input(source) ==
  IF source.t = "Missing" THEN CliErr("failed to read") ELSE CliOk(0)
\* both parsers take the texts of the model and refuse Garbage
parse_node(input, yaml) ==
  IF input.t = "Garbage" THEN CliErr("failed to parse") ELSE CliOk(0)

\* the entries of the -opts array, by their JSON text
parse_opts_json(raw) ==
  LET Entry(item) ==
        CASE item = "\"SET\"" -> OptionsOk([t |-> "ArrayMode", v |-> "Set"])
          [] item = "\"MULTISET\"" -> OptionsOk([t |-> "ArrayMode", v |-> "MultiSet"])
          [] item = "{\"precision\":1}" -> OptionsOk([t |-> "Precision", v |-> 1])
          [] item = "{\"setkeys\":[\"id\"]}" -> OptionsOk([t |-> "SetKeys", v |-> <<"id">>])
          [] item = "{\"setkeys\":[]}" ->
               OptionsErr("setkeys option requires at least one key")
          [] OTHER -> OptionsErr("unsupported -opts option")
      entries == [i \in 1..Len(raw.v) |-> Entry(raw.v[i])]
      failed == {i \in 1..Len(entries) : entries[i].kind = "Err"}
  IN IF raw.t = "Blank" THEN OptionsErr("-opts requires a JSON array")
     ELSE IF raw.t = "NotArray" THEN OptionsErr("-opts expects a JSON array")
     ELSE IF failed # {}
     THEN entries[CHOOSE i \in failed : \A j \in failed : i <= j]
     ELSE OptionsOk([i \in 1..Len(entries) |-> entries[i].options])

apply_parsed_option(o, option) ==
  CASE option.t = "ArrayMode" -> with_array_mode(o, option.v)
    [] option.t = "Precision" -> with_precision(o, option.v)
    [] option.t = "SetKeys" -> with_set_keys(o, option.v)

parse_flag_set_keys(raw) ==
  IF \E i \in 1..Len(raw) : raw[i] = " " THEN OptionsErr("invalid set key")
  ELSE OptionsOk(raw)

RECURSIVE ApplyParsed(_, _, _)
ApplyParsed(o, parsed, index) ==
  IF index > Len(parsed) THEN OptionsOk(o)
  ELSE LET next == apply_parsed_option(o, parsed[index])
       IN IF next.kind # "Ok" THEN next ELSE ApplyParsed(next.options, parsed, index + 1)

\* main.rs:302-331, statement by statement; each step hands on the Result so far.
\* cli.setkeys and cli.precision are Options: <<>> is None, <<x>> is Some(x)
build_options_opts(cli, parsed) ==
  IF parsed.kind # "Ok" THEN parsed ELSE ApplyParsed(DefaultOptions, parsed.options, 1)

build_options_set(cli, so_far) ==
  IF so_far.kind # "Ok" THEN so_far
  ELSE IF cli.set /\ cli.multiset THEN OptionsErr("-set and -mset cannot be combined")
  ELSE IF cli.set THEN with_array_mode(so_far.options, "Set")
  ELSE so_far

build_options_mset(cli, so_far) ==
  IF so_far.kind # "Ok" THEN so_far
  ELSE IF cli.multiset THEN with_array_mode(so_far.options, "MultiSet")
  ELSE so_far

build_options_setkeys_parsed(so_far, keys) ==
  IF keys.kind # "Ok" THEN keys ELSE with_set_keys(so_far.options, keys.options)

build_options_setkeys(cli, so_far) ==
  IF so_far.kind # "Ok" \/ cli.setkeys = <<>> THEN so_far
  ELSE build_options_setkeys_parsed(so_far, parse_flag_set_keys(cli.setkeys[1]))

build_options_precision(cli, so_far) ==
  IF so_far.kind # "Ok" \/ cli.precision = <<>> THEN so_far
  ELSE with_precision(so_far.options, cli.precision[1])

build_options(cli) ==
  build_options_precision(cli,
    build_options_setkeys(cli,
      build_options_mset(cli,
        build_options_set(cli,
          build_options_opts(cli, parse_opts_json(cli.opts))))))

\* main.rs:431-475; Void stands for None
RECURSIVE merge_patch(_, _)
merge_patch(lhs, rhs) ==
  IF lhs.t = "Object" /\ rhs.t = "Object"
  THEN LET a == lhs.v
           b == rhs.v
           Child(key) == merge_patch(a[key], b[key])
           kept == {key \in (DOMAIN a) \cup (DOMAIN b) :
                      \/ key \notin DOMAIN a
                      \/ key \notin DOMAIN b
                      \/ /\ ~is_void(Child(key))
                         /\ ~(Child(key).t = "Object" /\ DOMAIN Child(key).v = {})}
           map == [key \in kept |->
                     IF key \notin DOMAIN b THEN Null
                     ELSE IF key \notin DOMAIN a THEN b[key]
                     ELSE Child(key)]
       IN IF kept = {} THEN Void ELSE Object(map)
  ELSE IF lhs = rhs THEN Void ELSE rhs

\* main.rs:244: merge_patch(..).unwrap_or_else(|| Node::Object(BTreeMap::new()))
merge_patch_or_empty(patch) == IF is_void(patch) THEN Object(EmptyMap) ELSE patch

\* main.rs:232-254: have_diff, from what was rendered in the format asked for
have_diff(cli, lhs, rhs, diffed) ==
  CASE cli.format = "Native" -> render(diffed, [color |-> cli.color]) # <<>>
    [] cli.format = "Patch" -> render_patch(diffed).ops # <<>>
    [] cli.format = "Merge" ->
         to_json_value(merge_patch_or_empty(merge_patch(lhs, rhs)))
           \notin {JNone, JObject(EmptyMap)}

\* main.rs:227-264: the diff rendered and written
run_diff_render(cli, lhs, rhs, diffed) ==
  IF DiffPanicked(diffed) THEN CliPanic
  ELSE IF cli.format = "Patch" /\ render_patch(diffed).kind # "Ok"
  THEN CliErr("failed to render JSON Patch")
  ELSE IF cli.output = "Unwritable" THEN CliErr("failed to write output")
  ELSE CliOk(IF have_diff(cli, lhs, rhs, diffed) THEN 1 ELSE 0)

\* main.rs:224-225: the options built and the diff made
run_diff_built(cli, lhs, rhs, built) ==
  IF built.kind # "Ok" THEN CliErr(built.error)
  ELSE run_diff_render(cli, lhs, rhs, diff_nodes(lhs, rhs, built.options))

\* main.rs:208-222: the inputs named, read and parsed
run_diff_inputs(cli, first, second) ==
  IF path_from(first).kind # "Ok" THEN path_from(first)
  ELSE IF Len(cli.inputs) = 2 /\ path_from(second).kind # "Ok" THEN path_from(second)
  ELSE IF read_input(first).kind # "Ok" THEN read_input(first)
  ELSE IF read_input(second).kind # "Ok" THEN read_input(second)
  ELSE IF parse_node(first, cli.yaml).kind # "Ok"
  THEN CliErr("failed to parse first input")
  ELSE IF parse_node(second, cli.yaml).kind # "Ok"
  THEN CliErr("failed to parse second input")
  ELSE run_diff_built(cli, first.v, second.v, build_options(cli))

\* main.rs:207-265; the text written is left out, have_diff is what it decides
run_diff(cli) ==
  IF Len(cli.inputs) \notin {1, 2} THEN CliErr("usage")
  ELSE run_diff_inputs(cli, cli.inputs[1],
                       IF Len(cli.inputs) = 1 THEN cli.stdin ELSE cli.inputs[2])

\* main.rs:162-198
try_main(cli) ==
  IF cli.help THEN CliOk(0)
  ELSE IF cli.version THEN CliOk(0)
  ELSE IF cli.port THEN CliErr("The web UI (-port) is not supported in this build")
  ELSE IF cli.git_diff_driver THEN CliErr("git diff driver mode is not implemented yet")
  ELSE IF cli.patch /\ cli.translate
  THEN CliErr("Patch and translate modes cannot be used together.")
  ELSE IF cli.patch THEN CliErr("Patch mode is not implemented yet")
  ELSE IF cli.translate THEN CliErr("Translate mode is not implemented yet")
  ELSE run_diff(cli)

\* main.rs:151-159, and the exit status of a panicking main thread
exit_status(result) ==
  CASE result.kind = "Ok" -> result.code
    [] result.kind = "Err" -> 1
    [] result.kind = "Panic" -> 101

\* ------------------------------------------------------------------ state
VARIABLES
  pc,        \* the position of the run
  base,      \* the document diffed from / patched
  target,    \* the document diffed to
  options,   \* the DiffOptions in force
  diff,      \* the Diff at hand (engine made or hand built)
  k,         \* elements of diff already applied by the apply_patch loop
  ap,        \* the locals of the apply_patch loop
  patched,   \* apply_patch(base, diff)
  reversed,  \* diff.reverse()
  twice,     \* diff.reverse().reverse()
  restored,  \* apply_patch(target, reversed)
  rendered,  \* diff.render_patch()
  replayed,  \* the rendered JSON Patch applied to base by RFC 6902
  merged,    \* diff.render_merge()
  native,    \* diff.render(config), the native text as a sequence of lines
  cli,       \* the parsed command line and what its inputs hold
  returned,  \* what try_main returned
  exit_code, \* the exit status of the process, -1 while it runs
  stderr,    \* the message written to standard error, "" when none
  walk       \* the arguments and locals of the running call of diff_rest

vars == <<pc, base, target, options, diff, k, ap, patched, reversed, twice, restored,
          rendered, replayed, merged, native, cli, returned, exit_code, stderr,
          walk>>

\* ------------------------------------------------------------------ input documents
Scalars == {Number(n) : n \in 1..MaxNum}
FlatArrays == {Array(s) : s \in UNION {[1..n -> Scalars] : n \in 0..MaxLen}}
NestElems ==
  {Number(1), Array(<<>>), Array(<<Number(1)>>),
   Object([a |-> Number(1)]), Object([a |-> Number(2)])}
NestedArrays == {Array(s) : s \in UNION {[1..n -> NestElems] : n \in 0..MaxNest}}
ObjValues ==
  {Number(1), Number(2), Array(<<Number(1)>>), Array(<<Number(2), Number(1)>>),
   Object([a |-> Number(1)])}
Objects == {Object(m) : m \in UNION {[K -> ObjValues] : K \in SUBSET {"a", "b"}}}
Mixed ==
  {Void, Null, Number(1), Number(2), Array(<<Number(1)>>), Object([a |-> Number(1)]),
   Array(<<Array(<<Array(<<Number(1)>>), Number(2)>>)>>),
   Array(<<Array(<<Array(<<Number(2)>>), Number(1)>>)>>),
   Object([a |-> Array(<<Object([b |-> Number(1)]), Number(1)>>)]),
   Object([a |-> Array(<<Number(2), Object([b |-> Number(2)])>>)])}
Pairs ==
  (FlatArrays \X FlatArrays) \cup (NestedArrays \X NestedArrays)
    \cup (Objects \X Objects) \cup (Mixed \X Mixed)

\* no command line at hand
NoCli ==
  [help |-> FALSE, version |-> FALSE, port |-> FALSE, git_diff_driver |-> FALSE,
   patch |-> FALSE, translate |-> FALSE, color |-> FALSE, yaml |-> FALSE,
   format |-> "Native", output |-> "None", opts |-> [t |-> "Array", v |-> <<>>],
   set |-> FALSE, multiset |-> FALSE, setkeys |-> <<>>, precision |-> <<>>,
   inputs |-> <<>>, stdin |-> Text(Void)]
NoProcess ==
  /\ cli = NoCli
  /\ returned = Running
  /\ exit_code = 0 - 1
  /\ stderr = ""

\* no call of diff_rest under way
NoWalk ==
  [lhs |-> <<>>, rhs |-> <<>>, path |-> <<>>, lhs_hashes |-> <<>>, rhs_hashes |-> <<>>,
   common |-> <<>>, st |-> <<>>]

Idle ==
  /\ walk = NoWalk
  /\ k = 0
  /\ ap = ApplyStart(Void)
  /\ patched = Ok(Void)
  /\ reversed = DiffOk(<<>>)
  /\ twice = DiffOk(<<>>)
  /\ restored = Ok(Void)
  /\ rendered = OpsOk(<<>>)
  /\ replayed = RfcOk(JNone)
  /\ merged = JsonOk(JNone)
  /\ native = <<>>

\* ------------------------------------------------------------------ Spec:
\* diff two documents, apply, reverse, apply the reverse, render and replay
Init ==
  /\ pc = "start"
  /\ \E pair \in Pairs : base = pair[1] /\ target = pair[2]
  /\ options = DefaultOptions
  /\ diff = <<>>
  /\ Idle
  /\ NoProcess

Diff ==
  /\ pc = "start"
  /\ diff' = diff_nodes(base, target, options)
  /\ pc' = "diffed"
  /\ UNCHANGED <<base, target, options, k, ap, patched, reversed, twice, restored,
                 rendered, replayed, merged, native, cli, returned, exit_code,
                 stderr, walk>>

Apply ==
  /\ pc = "diffed"
  /\ patched' = apply_patch(base, diff)
  /\ pc' = "applied"
  /\ UNCHANGED <<base, target, options, diff, k, ap, reversed, twice, restored,
                 rendered, replayed, merged, native, cli, returned, exit_code,
                 stderr, walk>>

ReverseDiff ==
  /\ pc = "applied"
  /\ reversed' = reverse(diff)
  /\ pc' = "reversed"
  /\ UNCHANGED <<base, target, options, diff, k, ap, patched, twice, restored,
                 rendered, replayed, merged, native, cli, returned, exit_code,
                 stderr, walk>>

ApplyReversed ==
  /\ pc = "reversed"
  /\ restored' = IF reversed.kind = "Ok" THEN apply_patch(target, reversed.diff)
                 ELSE Err("reverse failed")
  /\ pc' = "restored"
  /\ UNCHANGED <<base, target, options, diff, k, ap, patched, reversed, twice,
                 rendered, replayed, merged, native, cli, returned, exit_code,
                 stderr, walk>>

RenderPatch ==
  /\ pc = "restored"
  /\ rendered' = render_patch(diff)
  /\ pc' = "rendered"
  /\ UNCHANGED <<base, target, options, diff, k, ap, patched, reversed, twice,
                 restored, replayed, merged, native, cli, returned, exit_code,
                 stderr, walk>>

Replay ==
  /\ pc = "rendered"
  /\ replayed' = IF rendered.kind = "Ok" THEN RfcApply(to_json_value(base), rendered.ops, 1)
                 ELSE RfcFail
  /\ pc' = "replayed"
  /\ UNCHANGED <<base, target, options, diff, k, ap, patched, reversed, twice,
                 restored, rendered, merged, native, cli, returned, exit_code,
                 stderr, walk>>

Next == Diff \/ Apply \/ ReverseDiff \/ ApplyReversed \/ RenderPatch \/ Replay

Spec == Init /\ [][Next]_vars

\* ------------------------------------------------------------------ SpecPatch:
\* hand-built diffs (as a deserialized diff may be) patched element by element,
\* reversed twice and rendered as a merge patch
HandBases ==
  {Number(1), Array(<<Number(2)>>), Array(<<Number(1), Number(2)>>),
   Array(<<Array(<<Number(1), Number(2)>>)>>), Object(EmptyMap),
   Object([a |-> Number(1)]), Object([a |-> Array(<<Number(1), Number(2)>>)]),
   Object([a |-> Object([b |-> Number(1)])])}
HandPaths ==
  {<<>>} \cup {<<Index(i)>> : i \in (0 - 1)..MaxIndex}
    \cup {<<Key(key)>> : key \in {"a", "b"}}
    \cup {<<Key("a"), Index(i)>> : i \in 0..MaxIndex}
    \cup {<<Index(0), Index(i)>> : i \in 0..MaxIndex}
    \cup {<<Key("a"), Key("b")>>}
Contexts == {<<>>, <<Void>>} \cup {<<s>> : s \in Scalars}
Removes ==
  {<<>>, <<Number(1), Number(2)>>, <<Number(2), Number(2)>>} \cup {<<s>> : s \in Scalars}
Adds == {<<>>, <<Number(1)>>, <<Null>>}
MergeMetadata == Metadata(TRUE, "None", "None")
HandElements ==
  {[metadata |-> metadata, path |-> path, before |-> before, remove |-> remove,
    add |-> add, after |-> after] :
     metadata \in {NoMetadata, MergeMetadata}, path \in HandPaths, before \in Contexts,
     remove \in Removes, add \in Adds, after \in Contexts}
MetaChoices ==
  {NoMetadata, Metadata(FALSE, "None", "None"), MergeMetadata,
   Metadata(FALSE, "None", "true"), Metadata(FALSE, "k", "None")}
\* the i-th element of a metadata-carrying diff sets the i-th key
PositionElement(i, metadata) ==
  [NewElement EXCEPT !.metadata = metadata,
                     !.path = <<Key(KeyOrder[((i - 1) % Len(KeyOrder)) + 1])>>,
                     !.add = <<Number(1)>>]
MetaDiffs ==
  UNION {{[i \in 1..n |-> PositionElement(i, choice[i])] : choice \in [1..n -> MetaChoices]} :
           n \in 0..MaxElems}
\* elements handed to render_patch: pointers through indices and through keys, the
\* Void marker of a merge deletion in remove, runs of two values
PointerPaths ==
  {<<Index(1)>>, <<Key("a"), Index(0)>>, <<Key("a")>>, <<Key("1")>>, <<Key("-")>>,
   <<Key("a"), Key("0")>>}
PointerContexts == {<<>>, <<Void>>, <<Number(1)>>}
PointerRemoves == {<<>>, <<Void>>, <<Void, Number(1)>>, <<Number(1), Number(2)>>}
PointerAdds == {<<>>, <<Void, Number(1)>>, <<Number(1), Number(2)>>}
PointerElements ==
  {[metadata |-> NoMetadata, path |-> path, before |-> before, remove |-> remove,
    add |-> add, after |-> after] :
     path \in PointerPaths, before \in PointerContexts, remove \in PointerRemoves,
     add \in PointerAdds, after \in PointerContexts}
\* diffs of up to MaxElems additions under keys, some of which no pointer can hold
KeyPaths ==
  {<<Key("a")>>, <<Key("1")>>, <<Key("+1")>>, <<Key("-")>>, <<Key("a"), Key("0")>>,
   <<Key("a~b")>>}
KeyDiffs ==
  UNION {{[i \in 1..n |-> [NewElement EXCEPT !.path = paths[i], !.add = <<Number(1)>>]] :
            paths \in [1..n -> KeyPaths]} : n \in 2..MaxElems}
HandDiffs ==
  {<<element>> : element \in HandElements} \cup MetaDiffs
    \cup {<<element>> : element \in PointerElements} \cup KeyDiffs

InitPatch ==
  /\ pc = "hand"
  /\ base \in HandBases
  /\ target = Void
  /\ options = DefaultOptions
  /\ diff \in HandDiffs
  /\ walk = NoWalk
  /\ k = 0
  /\ ap = ApplyStart(base)
  /\ patched = Ok(base)
  /\ reversed = DiffOk(<<>>)
  /\ twice = DiffOk(<<>>)
  /\ restored = Ok(Void)
  /\ rendered = OpsOk(<<>>)
  /\ replayed = RfcOk(JNone)
  /\ merged = JsonOk(JNone)
  /\ native = <<>>
  /\ NoProcess

\* one turn of the loop of apply_patch
PatchNext ==
  /\ pc = "hand"
  /\ k < Len(diff)
  /\ ap.outcome.kind = "Ok"
  /\ ap' = ApplyElement(ap, diff[k + 1])
  /\ k' = k + 1
  /\ patched' = ap'.outcome
  /\ UNCHANGED <<pc, base, target, options, diff, reversed, twice, restored, rendered,
                 replayed, merged, native, cli, returned, exit_code,
                 stderr, walk>>

ReverseHand ==
  /\ pc = "hand"
  /\ k = 0
  /\ reversed' = reverse(diff)
  /\ pc' = "reversed once"
  /\ UNCHANGED <<base, target, options, diff, k, ap, patched, twice, restored, rendered,
                 replayed, merged, native, cli, returned, exit_code,
                 stderr, walk>>

ReverseTwice ==
  /\ pc = "reversed once"
  /\ twice' = IF reversed.kind = "Ok" THEN reverse(reversed.diff) ELSE reversed
  /\ pc' = "reversed twice"
  /\ UNCHANGED <<base, target, options, diff, k, ap, patched, reversed, restored,
                 rendered, replayed, merged, native, cli, returned, exit_code,
                 stderr, walk>>

RenderMerge ==
  /\ pc = "hand"
  /\ k = 0
  /\ merged' = render_merge(diff)
  /\ pc' = "merge rendered"
  /\ UNCHANGED <<base, target, options, diff, k, ap, patched, reversed, twice, restored,
                 rendered, replayed, native, cli, returned, exit_code,
                 stderr, walk>>

RenderNative ==
  /\ pc = "hand"
  /\ k = 0
  /\ \E color \in BOOLEAN : native' = render(diff, [color |-> color])
  /\ pc' = "native rendered"
  /\ UNCHANGED <<base, target, options, diff, k, ap, patched, reversed, twice, restored,
                 rendered, replayed, merged, cli, returned, exit_code,
                 stderr, walk>>

RenderPatchHand ==
  /\ pc = "hand"
  /\ k = 0
  /\ rendered' = render_patch(diff)
  /\ pc' = "patch rendered"
  /\ UNCHANGED <<base, target, options, diff, k, ap, patched, reversed, twice, restored,
                 replayed, merged, native, cli, returned, exit_code,
                 stderr, walk>>

NextPatch ==
  \/ PatchNext
  \/ ReverseHand
  \/ ReverseTwice
  \/ RenderMerge
  \/ RenderNative
  \/ RenderPatchHand

SpecPatch == InitPatch /\ [][NextPatch]_vars

\* ------------------------------------------------------------------ SpecOptions:
\* options built by chaining the mutators from the default, then diff(a, a, O)
ArrayModes == {"List", "Set", "MultiSet"}
Precisions == (0 - 1)..MaxPrecision
KeyInputs == UNION {[1..n -> Range(SetKeyNames)] : n \in 0..2}
OptionNodes == Mixed \cup FlatArrays

InitOptions ==
  /\ pc = "options"
  /\ base \in OptionNodes
  /\ target = base
  /\ options = DefaultOptions
  /\ diff = <<>>
  /\ Idle
  /\ NoProcess

\* a mutator consumes the options: on Ok the chain goes on with the new value,
\* on Err nothing is left to go on with
Chain(result) ==
  /\ pc = "options"
  /\ IF result.kind = "Ok"
     THEN options' = result.options /\ pc' = "options"
     ELSE options' = options /\ pc' = result.error
  /\ UNCHANGED <<base, target, diff, k, ap, patched, reversed, twice, restored,
                 rendered, replayed, merged, native, cli, returned, exit_code,
                 stderr, walk>>

WithArrayMode == \E mode \in ArrayModes : Chain(with_array_mode(options, mode))

WithPrecision == \E precision \in Precisions : Chain(with_precision(options, precision))

WithSetKeys == \E keys \in KeyInputs : Chain(with_set_keys(options, keys))

DiffSelf ==
  /\ pc = "options"
  /\ diff' = diff_nodes(base, base, options)
  /\ pc' = "self diffed"
  /\ UNCHANGED <<base, target, options, k, ap, patched, reversed, twice, restored,
                 rendered, replayed, merged, native, cli, returned, exit_code,
                 stderr, walk>>

NextOptions == WithArrayMode \/ WithPrecision \/ WithSetKeys \/ DiffSelf

SpecOptions == InitOptions /\ [][NextOptions]_vars

\* ------------------------------------------------------------------ SpecCli:
\* one run of the command line tool, from the parsed arguments to the exit
CliDocs ==
  {Void, Number(1), Number(2), Array(<<Number(1)>>), Array(<<Number(2)>>),
   Object(EmptyMap), Object([a |-> Number(1)]), Object([a |-> Object(EmptyMap)])}
Sources == {NoPath, Missing, Garbage} \cup {Text(node) : node \in CliDocs}
TwoFiles == <<Text(Number(1)), Text(Number(2))>>
TwoArrays == <<Text(Array(<<Number(1)>>)), Text(Array(<<Number(2)>>))>>
Formats == {"Native", "Patch", "Merge"}
OptsTexts ==
  {[t |-> "Blank", v |-> <<>>], [t |-> "NotArray", v |-> <<>>]}
    \cup {[t |-> "Array", v |-> items] :
            items \in {<<>>, <<"\"SET\"">>, <<"\"MULTISET\"">>, <<"\"LIST\"">>,
                       <<"{\"precision\":1}">>, <<"{\"setkeys\":[\"id\"]}">>,
                       <<"{\"setkeys\":[]}">>, <<"{\"precision\":1}", "\"SET\"">>}}
\* runs that differ in their flags
FlagRuns ==
  {[NoCli EXCEPT !.help = help, !.version = version, !.port = port,
                 !.git_diff_driver = driver, !.patch = patch, !.translate = translate,
                 !.color = color, !.format = format, !.output = output,
                 !.inputs = TwoFiles] :
     help \in BOOLEAN, version \in BOOLEAN, port \in BOOLEAN, driver \in BOOLEAN,
     patch \in BOOLEAN, translate \in BOOLEAN, color \in BOOLEAN, format \in Formats,
     output \in {"None", "Unwritable"}}
\* runs that differ in their diff options
OptionRuns ==
  {[NoCli EXCEPT !.opts = opts, !.set = set, !.multiset = multiset, !.setkeys = setkeys,
                 !.precision = precision, !.format = format, !.inputs = inputs] :
     opts \in OptsTexts, set \in BOOLEAN, multiset \in BOOLEAN,
     setkeys \in {<<>>, << <<"id">> >>, << <<"id", " ">> >>},
     precision \in {<<>>} \cup {<<p>> : p \in Precisions},
     format \in Formats, inputs \in {TwoFiles, TwoArrays}}
\* runs that differ in their inputs
InputRuns ==
  {[NoCli EXCEPT !.format = format, !.yaml = yaml, !.inputs = inputs, !.stdin = stdin] :
     format \in Formats, yaml \in BOOLEAN,
     inputs \in {<<>>, <<Garbage, Garbage, Garbage>>}
                  \cup {<<first, second>> : first \in Sources, second \in Sources},
     stdin \in {Text(Void)}}
    \cup
  {[NoCli EXCEPT !.format = format, !.inputs = <<first>>, !.stdin = stdin] :
     format \in Formats, first \in Sources,
     stdin \in {Garbage} \cup {Text(node) : node \in CliDocs}}

InitCli ==
  /\ pc = "cli"
  /\ base = Void
  /\ target = Void
  /\ options = DefaultOptions
  /\ diff = <<>>
  /\ Idle
  /\ cli \in FlagRuns \cup OptionRuns \cup InputRuns
  /\ returned = Running
  /\ exit_code = 0 - 1
  /\ stderr = ""

TryMain ==
  /\ pc = "cli"
  /\ returned' = try_main(cli)
  /\ pc' = "returned"
  /\ UNCHANGED <<base, target, options, diff, k, ap, patched, reversed, twice, restored,
                 rendered, replayed, merged, native, cli, exit_code, stderr, walk>>

\* main's match on what try_main returned; a panic ends the process on its own
Exit ==
  /\ pc = "returned"
  /\ stderr' = IF returned.kind = "Ok" THEN "" ELSE returned.msg
  /\ exit_code' = exit_status(returned)
  /\ pc' = "exited"
  /\ UNCHANGED <<base, target, options, diff, k, ap, patched, reversed, twice, restored,
                 rendered, replayed, merged, native, cli, returned, walk>>

NextCli == TryMain \/ Exit

SpecCli == InitCli /\ [][NextCli]_vars

\* ------------------------------------------------------------------ SpecList:
\* the diff of two arrays in list mode, one turn of the loop of diff_rest at a time
\* arrays that mix scalars with containers differing inside
WalkElems == {Number(1), Array(<<Number(1)>>), Array(<<Number(2)>>)}
WalkArrays == {Array(s) : s \in UNION {[1..n -> WalkElems] : n \in 0..MaxLen}}
ArrayPairs ==
  {pair \in Pairs : pair[1].t = "Array" /\ pair[2].t = "Array"}
    \cup (WalkArrays \X WalkArrays)

\* list.rs:36-44, the locals a call of diff_rest starts with
StartOfRest(path_index, path, previous) ==
  [a_cursor |-> 0, b_cursor |-> 0, common_cursor |-> 0, path_cursor |-> path_index,
   diff |-> << [NewElement EXCEPT !.path = path_now(path, path_index),
                                  !.before = <<previous>>] >>,
   ctl |-> "loop"]
\* a call of diff_rest: its arguments and its locals
Call(lhs, rhs, path_index, path, lhs_hashes, rhs_hashes, common, previous) ==
  [lhs |-> lhs, rhs |-> rhs, path |-> path, lhs_hashes |-> lhs_hashes,
   rhs_hashes |-> rhs_hashes, common |-> common,
   st |-> StartOfRest(path_index, path, previous)]
\* list.rs:110-119, what the call has to return once its loop is left
CloseOut(call) ==
  IF ~has_changes(call.st.diff) THEN <<>>
  ELSE IF Len(call.st.diff[1].path) <= Len(call.path) /\ Len(call.st.diff) < 2
  THEN [call.st.diff EXCEPT ![1].after =
          after_context(call.lhs, call.st.a_cursor, call.st.common_cursor)]
  ELSE call.st.diff
AtEnd(call) ==
  call.st.a_cursor = Len(call.lhs) /\ call.st.b_cursor = Len(call.rhs)

InitList ==
  /\ pc = "start"
  /\ \E pair \in ArrayPairs : base = pair[1] /\ target = pair[2]
  /\ options = DefaultOptions
  /\ diff = <<>>
  /\ Idle
  /\ NoProcess

\* diff_impl on two arrays, and diff_lists up to its call of diff_rest
StartWalk ==
  /\ pc = "start"
  /\ IF eq_with_options(base, target, options)
     THEN pc' = "walked" /\ walk' = walk
     ELSE LET lhs_hashes == [i \in 1..Len(base.v) |-> hash_code(base.v[i], options)]
              rhs_hashes == [i \in 1..Len(target.v) |-> hash_code(target.v[i], options)]
              common == longest_common_subsequence(lhs_hashes, rhs_hashes)
          IN /\ pc' = "walking"
             /\ walk' = Call(base.v, target.v, 0, with_segment(<<>>, Index(0)),
                             lhs_hashes, rhs_hashes, common, Void)
  /\ UNCHANGED <<base, target, options, diff, k, ap, patched, reversed, twice, restored,
                 rendered, replayed, merged, native, cli, returned, exit_code, stderr>>

\* one turn of the loop
Turn ==
  /\ pc = "walking"
  /\ walk.st.ctl = "loop"
  /\ walk' = [walk EXCEPT !.st = LoopStep(walk.lhs, walk.rhs, walk.path, walk.lhs_hashes,
                                          walk.rhs_hashes, walk.common, options, walk.st)]
  /\ UNCHANGED <<pc, base, target, options, diff, k, ap, patched, reversed, twice,
                 restored, rendered, replayed, merged, native, cli, returned, exit_code,
                 stderr>>

\* list.rs:121-138, the loop left with elements still to walk: the call on the rest
Recurse ==
  /\ pc = "walking"
  /\ walk.st.ctl = "break"
  /\ ~AtEnd(walk)
  /\ diff' = diff \o CloseOut(walk)
  /\ walk' = Call(Skip(walk.lhs, walk.st.a_cursor), Skip(walk.rhs, walk.st.b_cursor),
                  walk.st.path_cursor, path_now(walk.path, walk.st.path_cursor),
                  Skip(walk.lhs_hashes, walk.st.a_cursor),
                  Skip(walk.rhs_hashes, walk.st.b_cursor),
                  Skip(walk.common, walk.st.common_cursor),
                  previous_node(walk.rhs, walk.st.b_cursor))
  /\ UNCHANGED <<pc, base, target, options, k, ap, patched, reversed, twice, restored,
                 rendered, replayed, merged, native, cli, returned, exit_code, stderr>>

\* the loop left at the end of both arrays, or by a read past the end of one
Return ==
  /\ pc = "walking"
  /\ \/ walk.st.ctl = "panic"
     \/ walk.st.ctl = "break" /\ AtEnd(walk)
  /\ diff' = IF walk.st.ctl = "panic" THEN <<PanicElement>> ELSE diff \o CloseOut(walk)
  /\ pc' = IF walk.st.ctl = "panic" THEN "panicked" ELSE "walked"
  /\ UNCHANGED <<base, target, options, k, ap, patched, reversed, twice, restored,
                 rendered, replayed, merged, native, cli, returned, exit_code, stderr,
                 walk>>

NextList == StartWalk \/ Turn \/ Recurse \/ Return

SpecList == InitList /\ [][NextList]_vars

\* ------------------------------------------------------------------ claims
\* the single hand-built element, once the patch engine has run it
OneApplied == pc = "hand" /\ Len(diff) = 1 /\ k = 1
VoidFree(node) == to_json_value(node) # JNone
KeysOnly(path) == \A i \in 1..Len(path) : path[i].t = "Key"

\* the node a strict path addresses in a document (Void when it addresses none)
RECURSIVE Resolve(_, _)
Resolve(node, path) ==
  IF Len(path) = 0 THEN node
  ELSE LET segment == path[1]
       IN IF node.t = "Object" /\ segment.t = "Key" /\ segment.v \in DOMAIN node.v
          THEN Resolve(node.v[segment.v], Tail(path))
          ELSE IF node.t = "Array" /\ segment.t = "Index" /\ segment.v >= 0
                  /\ segment.v < Len(node.v)
          THEN Resolve(node.v[segment.v + 1], Tail(path))
          ELSE Void

\* the node a key path ends at under the Merge strategy (Void for an absent key)
RECURSIVE MergeEnd(_, _)
MergeEnd(node, path) ==
  IF Len(path) = 0 THEN node
  ELSE IF node.t = "Object" /\ path[1].v \in DOMAIN node.v
  THEN MergeEnd(node.v[path[1].v], Tail(path))
  ELSE Void

C2_ContextAtEveryDepth ==
  OneApplied /\ ap.strategy = "Strict" /\ Len(diff[1].path) > 0 =>
    LET element == diff[1]
        last == element.path[Len(element.path)]
        addressed == Resolve(base, drop_last(element.path))
        i == last.v
        next == i + Len(element.remove)
    IN (last.t = "Index" /\ i >= 0 /\ addressed.t = "Array" /\ next <= Len(addressed.v)) =>
         /\ (/\ Len(element.before) = 1
             /\ ~is_void(element.before[1])
             /\ ~(i >= 1 /\ addressed.v[i] = element.before[1]))
              => ap.outcome.kind = "Err"
         /\ (/\ Len(element.after) = 1
             /\ ~is_void(element.after[1])
             /\ ~(next < Len(addressed.v) /\ addressed.v[next + 1] = element.after[1]))
              => ap.outcome.kind = "Err"

\* C3: apply_patch is total. Whatever the node and the diff, the outcome is a patched
\* node or a PatchError, never an abort on an out-of-range access.
C3_ApplyTotal == pc = "hand" => patched.kind \in {"Ok", "Err"}

C5_ReverseInvolution ==
  (pc = "reversed twice" /\ \A i \in 1..Len(diff) : ~diff[i].metadata.merge) =>
    twice = DiffOk(diff)

C7_SelfDiffEmpty == pc = "self diffed" => diff = <<>>

C9_MergeRenderIffUnflagged ==
  (pc = "merge rendered" /\ Len(diff) > 0) =>
    ((merged = JsonErr("cannot render non-merge element as merge"))
       <=> (\E i \in 1..Len(diff) : ~\E j \in 1..i : diff[j].metadata.merge))

\* C10: element k is applied with the Merge strategy exactly when some element j <= k
\* carries metadata with merge = true, and with the Strict strategy otherwise.
C10_MergeSticks ==
  (pc = "hand" /\ k >= 1) =>
    ((ap.strategy = "Merge") <=> (\E j \in 1..k : diff[j].metadata.merge))

C10_Witness ==
  /\ pc = "hand"
  /\ k = 3
  /\ diff[1].metadata.merge
  /\ diff[2].metadata.present /\ ~diff[2].metadata.merge
  /\ diff[3].metadata.present /\ ~diff[3].metadata.merge
  /\ ap.strategy = "Merge"
  /\ ap.outcome.kind = "Ok"

\* C11: Null deletes under Merge. An element applied with the Merge strategy whose
\* path ends in object key k and whose add is [Null] yields an object without key k.
C11_NullDeletesKey ==
  (/\ OneApplied
   /\ ap.strategy = "Merge"
   /\ Len(diff[1].path) > 0 /\ KeysOnly(diff[1].path)
   /\ diff[1].add = <<Null>>
   /\ ap.outcome.kind = "Ok") =>
    LET path == diff[1].path
        parent == Resolve(ap.outcome.node, drop_last(path))
    IN parent.t = "Object" /\ path[Len(path)].v \notin DOMAIN parent.v

\* C12: the native renderer writes the merge header once. A diff with some element
\* carrying merge metadata renders exactly one '^ {"Merge":true}' line, however many
\* of its elements carry it, and a diff with none renders no header.
C12_HeaderOnce ==
  pc = "native rendered" =>
    Cardinality({i \in 1..Len(native) : native[i].t = "^"})
      = (IF \E i \in 1..Len(diff) : diff[i].metadata.merge THEN 1 ELSE 0)

\* C13: reverse rejects merge diffs. reverse returns an error and no diff exactly when
\* some element of the diff carries merge = true, wherever that element sits; any
\* other diff is reversed into a diff of the same length.
C13_ReverseRejectsMerge ==
  pc = "reversed once" =>
    IF \E j \in 1..Len(diff) : diff[j].metadata.present /\ diff[j].metadata.merge
    THEN reversed.kind = "Err" /\ reversed.diff = <<>>
    ELSE reversed.kind = "Ok" /\ Len(reversed.diff) = Len(diff)

C13_Witness ==
  /\ pc = "reversed once"
  /\ Len(diff) >= 2
  /\ ~diff[1].metadata.merge
  /\ diff[2].metadata.merge
  /\ reversed.kind = "Err"

\* The operations C14 lists for one element: the test of a non-Void before context at
\* index i - 1, the test of a non-Void after context at index i + |remove|, a test and
\* a remove per remove value, an add per non-Void add value from the last to the
\* first.  With marker set, a remove whose first value is Void gives no operation.
ListedOps(element, marker) ==
  LET pointer == path_to_pointer(element.path)
      ContextAt(offset) ==
        path_to_pointer(with_segment(drop_last(element.path),
                                     Index(element.path[Len(element.path)].v + offset)))
      before == IF Len(element.before) = 1 /\ ~is_void(element.before[1])
                THEN <<PatchElement("test", ContextAt(0 - 1),
                                    to_json_value(element.before[1]))>>
                ELSE <<>>
      after == IF Len(element.after) = 1 /\ ~is_void(element.after[1])
               THEN <<PatchElement("test", ContextAt(Len(element.remove)),
                                   to_json_value(element.after[1]))>>
               ELSE <<>>
      remove == IF marker /\ Len(element.remove) > 0 /\ is_void(element.remove[1])
                THEN <<>>
                ELSE [n \in 1..(2 * Len(element.remove)) |->
                        PatchElement(IF n % 2 = 1 THEN "test" ELSE "remove", pointer,
                                     to_json_value(element.remove[(n + 1) \div 2]))]
      kept == SelectSeq(element.add, LAMBDA value : ~is_void(value))
      add == [n \in 1..Len(kept) |->
                PatchElement("add", pointer, to_json_value(kept[Len(kept) + 1 - n]))]
  IN before \o after \o remove \o add

\* C14 as stated: the operations of a rendered patch are, element after element in
\* diff order, the before test, the after test, a test and a remove for each remove
\* value, and the adds in reverse order.
C14_OpOrder ==
  (pc = "patch rendered" /\ rendered.kind = "Ok") =>
    rendered.ops = Flatten([j \in 1..Len(diff) |-> ListedOps(diff[j], FALSE)])

\* C14 amended: the same order, except that an element whose first remove value is
\* the Void marker of a merge deletion contributes no test and no remove.
C14_OpOrderVoidMarker ==
  (pc = "patch rendered" /\ rendered.kind = "Ok") =>
    rendered.ops = Flatten([j \in 1..Len(diff) |-> ListedOps(diff[j], TRUE)])

C14_Witness ==
  /\ pc = "patch rendered"
  /\ rendered.kind = "Ok"
  /\ Len(diff) = 1
  /\ diff[1].before = <<Number(1)>> /\ diff[1].after = <<Number(1)>>
  /\ diff[1].remove = <<Number(1), Number(2)>>
  /\ diff[1].add = <<Number(1), Number(2)>>
  /\ Len(rendered.ops) = 8
  /\ rendered.ops[7].value = JNumber(2)

\* C15: keys no JSON Pointer can hold. When some element's path holds an object key
\* that parses as an integer or is "-", render_patch returns an error and no
\* operation, wherever the element sits and whatever the elements before it gave.
C15_RejectsPointerKeys ==
  (/\ pc = "patch rendered"
   /\ \E j \in 1..Len(diff) : \E i \in 1..Len(diff[j].path) :
        /\ diff[j].path[i].t = "Key"
        /\ diff[j].path[i].v \in {"0", "1", "+1", "-1", "-"})
    => rendered.kind = "Err" /\ rendered.ops = <<>>

C15_Witness ==
  /\ pc = "patch rendered"
  /\ Len(diff) = 3
  /\ diff[1].path = <<Key("a")>>
  /\ diff[2].path = <<Key("a~b")>>
  /\ diff[3].path = <<Key("a"), Key("0")>>
  /\ render_patch(Take(diff, 2)).kind = "Ok"
  /\ rendered.kind = "Err"

\* an element of a list: its path ends in an index
ListHunk(element) ==
  Len(element.path) > 0 /\ element.path[Len(element.path)].t = "Index"

RECURSIVE ShiftBefore(_, _, _)
ShiftBefore(j, depth, i) ==
  IF i >= j THEN 0
  ELSE (IF /\ Len(diff[i].path) = depth
           /\ diff[i].path[depth].t = "Index"
           /\ Take(diff[i].path, depth - 1) = Take(diff[j].path, depth - 1)
        THEN Len(diff[i].add) - Len(diff[i].remove)
        ELSE 0) + ShiftBefore(j, depth, i + 1)
LeftIndex(j, depth) == diff[j].path[depth].v - ShiftBefore(j, depth, 1)
ElementAt(node, index) ==
  IF node.t = "Array" /\ index >= 0 /\ index < Len(node.v) THEN node.v[index + 1] ELSE Void
\* the left-hand node under the first depth segments of the path of diff[j]
RECURSIVE LeftNode(_, _)
LeftNode(j, depth) ==
  IF depth = 0 THEN base
  ELSE LET parent == LeftNode(j, depth - 1)
           segment == diff[j].path[depth]
       IN IF segment.t = "Index" THEN ElementAt(parent, LeftIndex(j, depth))
          ELSE IF parent.t = "Object" /\ segment.v \in DOMAIN parent.v
          THEN parent.v[segment.v]
          ELSE Void
\* the left-hand array L a list hunk lies in, and its first left-hand position a
HunkArray(j) == LeftNode(j, Len(diff[j].path) - 1)
HunkStart(j) == LeftIndex(j, Len(diff[j].path))

\* C17 as stated: the before of every list hunk is the single entry L[a-1], the
\* left-hand element just before the hunk's first left-hand position a, Void when
\* a = 0.
C17_BeforeIsLeftNeighbour ==
  pc # "start" =>
    \A j \in 1..Len(diff) :
      ListHunk(diff[j]) =>
        diff[j].before = <<ElementAt(HunkArray(j), HunkStart(j) - 1)>>

\* C17 amended: the before of every list hunk is the single entry R[p-1], the
\* right-hand element just before the hunk's path index p, Void when p = 0.
C17_BeforeIsRightNeighbour ==
  pc # "start" =>
    \A j \in 1..Len(diff) :
      ListHunk(diff[j]) =>
        LET path == diff[j].path
            p == path[Len(path)].v
        IN diff[j].before = <<ElementAt(Resolve(target, drop_last(path)), p - 1)>>

\* a hunk that follows a container changed in place: R[p-1] is not L[a-1]
C17_Witness ==
  /\ pc = "diffed"
  /\ \E j \in 1..Len(diff) :
       /\ ListHunk(diff[j])
       /\ diff[j].path[Len(diff[j].path)].v > 0
       /\ ~is_void(diff[j].before[1])
       /\ diff[j].before[1] # ElementAt(HunkArray(j), HunkStart(j) - 1)

KeyRank(key) == CHOOSE i \in 1..Len(KeyOrder) : KeyOrder[i] = key
\* the elements of the diff that lie under the key
UnderKey(key) ==
  SelectSeq(diff, LAMBDA element : Len(element.path) > 0 /\ element.path[1] = Key(key))

\* C19: order of an object diff. In the diff of two objects every element lies under
\* a key; the elements under left-hand keys come first, by ascending key, then those
\* under right-only keys, by ascending key; a key in both contributes the sub-diff
\* of its two values, a left-only key one remove of its value, a right-only key one
\* add of its value.
C19_ObjectOrder ==
  (pc # "start" /\ base.t = "Object" /\ target.t = "Object") =>
    LET lhs == base.v
        rhs == target.v
        Phase(element) == IF element.path[1].v \in DOMAIN lhs THEN 1 ELSE 2
    IN /\ \A j \in 1..Len(diff) :
            /\ Len(diff[j].path) > 0
            /\ diff[j].path[1].t = "Key"
            /\ diff[j].path[1].v \in (DOMAIN lhs) \cup (DOMAIN rhs)
       /\ \A i, j \in 1..Len(diff) :
            i < j =>
              \/ Phase(diff[i]) < Phase(diff[j])
              \/ /\ Phase(diff[i]) = Phase(diff[j])
                 /\ KeyRank(diff[i].path[1].v) <= KeyRank(diff[j].path[1].v)
       /\ \A key \in (DOMAIN lhs) \cap (DOMAIN rhs) :
            UnderKey(key) = diff_impl(lhs[key], rhs[key], <<Key(key)>>, options)
       /\ \A key \in (DOMAIN lhs) \ (DOMAIN rhs) :
            UnderKey(key) = << [NewElement EXCEPT !.path = <<Key(key)>>,
                                                  !.remove = <<lhs[key]>>] >>
       /\ \A key \in (DOMAIN rhs) \ (DOMAIN lhs) :
            UnderKey(key) = << [NewElement EXCEPT !.path = <<Key(key)>>,
                                                  !.add = <<rhs[key]>>] >>

\* the removal under the left-only key b comes before the addition under a
C19_Witness ==
  /\ pc = "diffed"
  /\ base.t = "Object" /\ target.t = "Object"
  /\ Len(diff) = 2
  /\ diff[1].path = <<Key("b")>> /\ Len(diff[1].remove) = 1
  /\ diff[2].path = <<Key("a")>> /\ Len(diff[2].add) = 1

\* the two rules C20 states on options
OptionRules(o) ==
  /\ o.precision > 0 => o.array_mode = "List"
  /\ o.set_keys # <<>> => o.array_mode = "Set"

\* C20: rules on options. Every options value reached from the default through
\* successful mutators has precision > 0 only in List mode and set keys only in Set
\* mode; from any such value, a mutator call succeeds only with a result that keeps
\* both rules, and a call whose assignment would break one returns an error.
C20_OptionRulesKept ==
  /\ OptionRules(options)
  /\ pc = "options" =>
       /\ \A mode \in ArrayModes :
            with_array_mode(options, mode).kind = "Ok"
              <=> OptionRules([options EXCEPT !.array_mode = mode])
       /\ \A precision \in Precisions :
            with_precision(options, precision).kind = "Ok"
              <=> OptionRules([options EXCEPT !.precision = precision])
       /\ \A keys \in KeyInputs :
            LET result == with_set_keys(options, keys)
            IN /\ result.kind = "Ok" => OptionRules(result.options)
               /\ options.precision > 0 => result.kind = "Err"

\* a precision refused after set keys were accepted
C20_Witness ==
  /\ pc = "PrecisionIncompatible"
  /\ options.set_keys # <<>>
  /\ options.array_mode = "Set"

\* C21: precision never negative. Every options value the mutators give has
\* precision >= 0, so a number equals itself within the precision.
C21_PrecisionNonNegative ==
  /\ options.precision >= 0
  /\ \A n \in 1..MaxNum : equals_with_precision(n, n, options.precision)

\* the run was refused or failed: try_main returned an error, or the engine gave up
CliFailed == returned.kind \in {"Err", "Panic"}
\* the two documents of a run whose inputs were read and parsed
CliLeft == cli.inputs[1].v
CliRight == IF Len(cli.inputs) = 1 THEN cli.stdin.v ELSE cli.inputs[2].v

\* C22: exit codes. A run that ends on an error exits with code 2 and a message on
\* standard error; a run exits with code 1 only when it computed a diff that is
\* not empty.
C22_ExitCodes ==
  pc = "exited" =>
    /\ CliFailed => exit_code = 2 /\ stderr # ""
    /\ exit_code = 1 =>
         /\ returned.kind = "Ok"
         /\ diff_nodes(CliLeft, CliRight, build_options(cli).options) # <<>>

\* C23: exit code of a diff. A run in diff mode that read and parsed both inputs and
\* came to its end exits with 0 exactly when the two documents are equal under the
\* options of the run, and with 1 exactly when they differ, in each output format.
C23_ExitTellsEquality ==
  (pc = "exited" /\ returned.kind = "Ok" /\ ~cli.help /\ ~cli.version) =>
    LET equal == eq_with_options(CliLeft, CliRight, build_options(cli).options)
    IN /\ exit_code = 0 <=> equal
       /\ exit_code = 1 <=> ~equal

\* the walk of the two arrays gives the diff the engine gives
WalkIsDiff == pc = "walked" => diff = diff_nodes(base, target, options)

\* the elements under the two cursors of the running call, when both exist
PairAtCursors == walk.st.a_cursor < Len(walk.lhs) /\ walk.st.b_cursor < Len(walk.rhs)
LeftCurrent == walk.lhs[walk.st.a_cursor + 1]
RightCurrent == walk.rhs[walk.st.b_cursor + 1]
LeftAtCommon == at_common(walk.lhs_hashes, walk.st.a_cursor, walk.common)
RightAtCommon == at_common(walk.rhs_hashes, walk.st.b_cursor, walk.common)
BothContainers ==
  \/ LeftCurrent.t = "Object" /\ RightCurrent.t = "Object"
  \/ LeftCurrent.t = "Array" /\ RightCurrent.t = "Array"
\* the turn recursed into the pair under the cursors: both cursors moved past it,
\* nothing went into the remove or add of the hunk under way, and what follows the
\* hunk is the diff of the pair at the path extended by the current index
Coalesced ==
  LET sub_path == path_now(walk.path, walk.st.path_cursor)
      sub_diff == diff_impl(LeftCurrent, RightCurrent, sub_path, options)
      kept == has_changes(walk.st.diff)
  IN /\ walk'.st.a_cursor = walk.st.a_cursor + 1
     /\ walk'.st.b_cursor = walk.st.b_cursor + 1
     /\ Len(walk'.st.diff) = (IF kept THEN 1 ELSE 0) + Len(sub_diff)
     /\ kept => /\ walk'.st.diff[1].remove = walk.st.diff[1].remove
                /\ walk'.st.diff[1].add = walk.st.diff[1].add
     /\ Skip(walk'.st.diff, IF kept THEN 1 ELSE 0) = sub_diff
     /\ \A i \in 1..Len(sub_diff) :
          Take(sub_diff[i].path, Len(sub_path)) = sub_path

\* C24 as stated: a turn that finds two objects or two arrays under the cursors, at
\* least one of them not at the next common element, recurses into the pair.
C24_CoalesceUnlessBothCommon ==
  [][(/\ pc = "walking" /\ walk.st.ctl = "loop"
      /\ PairAtCursors /\ BothContainers
      /\ ~(LeftAtCommon /\ RightAtCommon)) => Coalesced]_vars

\* C24 amended: the turn recurses into the pair when neither of the two is at the
\* next common element; when exactly one is, that one stays under its cursor and
\* the other side is moved into add or remove up to its next common element.
C24_CoalesceWhenNeitherCommon ==
  [][(/\ pc = "walking" /\ walk.st.ctl = "loop"
      /\ PairAtCursors /\ BothContainers) =>
       /\ (~LeftAtCommon /\ ~RightAtCommon) => Coalesced
       /\ (LeftAtCommon /\ ~RightAtCommon) =>
            /\ walk'.st.a_cursor = walk.st.a_cursor
            /\ walk'.st.b_cursor > walk.st.b_cursor
            /\ Len(walk'.st.diff) = 1
            /\ Take(walk'.st.diff[1].add, Len(walk.st.diff[1].add) + 1)
                 = Append(walk.st.diff[1].add, RightCurrent)
       /\ (~LeftAtCommon /\ RightAtCommon) =>
            /\ walk'.st.b_cursor = walk.st.b_cursor
            /\ walk'.st.a_cursor > walk.st.a_cursor
            /\ Len(walk'.st.diff) = 1
            /\ Take(walk'.st.diff[1].remove, Len(walk.st.diff[1].remove) + 1)
                 = Append(walk.st.diff[1].remove, LeftCurrent)]_vars

\* a hunk under way closed by the sub-diff of the pair that follows it
C24_Witness ==
  /\ pc = "walking"
  /\ walk.st.ctl = "break"
  /\ Len(walk.st.diff) >= 2
  /\ has_changes(walk.st.diff)
  /\ Len(walk.st.diff[2].path) = Len(walk.path) + 1

\* the hunks of the walked array itself, and what they add less what they remove
OwnHunks(elements) == SelectSeq(elements, LAMBDA element : Len(element.path) = 1)
RECURSIVE Growth(_)
Growth(elements) ==
  IF Len(elements) = 0 THEN 0
  ELSE (IF Len(elements[1].path) = 1
        THEN Len(elements[1].add) - Len(elements[1].remove) ELSE 0)
       + Growth(Tail(elements))
\* the left-hand position the running call started at
LeftStart == Len(base.v) - Len(walk.lhs)

\* C25: indices. The indices of the hunks of the walked array grow strictly in the
\* order of emission; the hunk a call builds sits at the call's first left-hand
\* position plus what the earlier hunks of the array added less what they removed;
\* the sub-diff of a nested container lies under the container's left-hand position
\* shifted the same way, the hunk closed just before it counted in.
C25_ShiftedIndices ==
  /\ pc \in {"walking", "walked"} =>
       LET own == OwnHunks(diff)
       IN \A i \in 1..(Len(own) - 1) : own[i].path[1].v < own[i + 1].path[1].v
  /\ (pc = "walking" /\ Len(walk.st.diff) > 0) =>
       LET buffer == walk.st.diff
           own == Len(buffer[1].path) = 1
           nested == Skip(buffer, IF own THEN 1 ELSE 0)
       IN /\ own => buffer[1].path[1].v = LeftStart + Growth(diff)
          /\ \A i \in 1..Len(nested) :
               nested[i].path[1].v
                 = LeftStart + walk.st.a_cursor - 1 + Growth(diff)
                     + (IF own /\ has_changes(buffer) THEN Growth(<<buffer[1]>>) ELSE 0)

\* a sub-diff under a shifted index, after a hunk that changed the length
C25_Witness ==
  /\ pc = "walking"
  /\ Growth(diff) # 0
  /\ Len(OwnHunks(diff)) >= 1
  /\ walk.st.ctl = "break"
  /\ Len(walk.st.diff) >= 1
  /\ Len(walk.st.diff[1].path) = 2

\* s can be had from t by dropping elements
RECURSIVE IsSubsequence(_, _)
IsSubsequence(s, t) ==
  IF Len(s) = 0 THEN TRUE
  ELSE IF Len(t) = 0 THEN FALSE
  ELSE IF s[1] = t[1] THEN IsSubsequence(Tail(s), Tail(t))
  ELSE IsSubsequence(s, Tail(t))

\* what a walk has left to do: two for every element of the current call, two more
\* for every element it has not consumed yet, and one while its loop is still running
Remaining ==
  2 * (Len(walk.lhs) + Len(walk.rhs))
    + 2 * ((Len(walk.lhs) - walk.st.a_cursor) + (Len(walk.rhs) - walk.st.b_cursor))
    + (IF walk.st.ctl = "loop" THEN 1 ELSE 0)

\* C29: the walk stays inside the arrays and ends. At every turn the cursors are
\* within the two arrays, no read went past an end, and what is left of the LCS is a
\* subsequence of what is left of either side; a walk that has not ended always has a
\* next step, every step leaves strictly less to do, the amount left is never
\* negative, and every call on the rest has fewer elements than the call before it.
C29_WalkEndsInside ==
  /\ [](pc # "panicked")
  /\ [](pc = "walking" =>
          /\ walk.st.ctl \in {"loop", "break"}
          /\ walk.st.a_cursor <= Len(walk.lhs)
          /\ walk.st.b_cursor <= Len(walk.rhs)
          /\ Remaining >= 0
          /\ IsSubsequence(Skip(walk.common, walk.st.common_cursor),
                           Skip(walk.lhs_hashes, walk.st.a_cursor))
          /\ IsSubsequence(Skip(walk.common, walk.st.common_cursor),
                           Skip(walk.rhs_hashes, walk.st.b_cursor)))
  /\ [][(pc = "walking" /\ pc' = "walking") => Remaining' < Remaining]_vars
  /\ [][(pc = "walking" /\ walk.st.ctl = "break" /\ pc' = "walking") =>
          Len(walk'.lhs) + Len(walk'.rhs) < Len(walk.lhs) + Len(walk.rhs)]_vars
  /\ [][pc = "walking" => pc' \in {"walking", "walked"}]_vars

\* a skip loop that took two right-hand elements and stopped at the common one
C29_Witness ==
  /\ pc = "walking"
  /\ walk.st.ctl = "loop"
  /\ walk.st.a_cursor = 0
  /\ walk.st.b_cursor >= 2
  /\ walk.st.b_cursor < Len(walk.rhs)
  /\ Len(walk.st.diff[1].add) = walk.st.b_cursor
  /\ LeftAtCommon /\ RightAtCommon

\* the strict element the patch engine has just run with success, and where it acted
StrictApplied == pc = "hand" /\ k' = k + 1 /\ ap'.strategy = "Strict" /\ ap'.outcome.kind = "Ok"
Acted == diff[k + 1]
ActedParent ==
  IF Len(Acted.path) = 0 THEN Void
  ELSE Resolve(ap.current, Take(Acted.path, Len(Acted.path) - 1))
ActedLast == Acted.path[Len(Acted.path)]
ActedInList == Len(Acted.path) > 0 /\ ActedParent.t = "Array" /\ ActedLast.t = "Index"

\* C26: strict application destroys only what it has verified. When a strict element
\* succeeds, then at a terminal list index every element it popped was equal to
\* its remove entry (and an append at -1 removes nothing), and anywhere else
\* the value at the end of the path was equal to the single remove entry, or was
\* absent or Void when remove is empty; a strict element with an empty remove that
\* ends at a present object key fails.
C26_StrictVerifiesRemoved ==
  [][/\ StrictApplied =>
          IF ActedInList
          THEN IF ActedLast.v < 0 THEN Len(Acted.remove) = 0
               ELSE \A j \in 1..Len(Acted.remove) :
                      /\ ActedLast.v + j <= Len(ActedParent.v)
                      /\ node_equals(ActedParent.v[ActedLast.v + j], Acted.remove[j])
          ELSE /\ Len(Acted.remove) <= 1
               /\ node_equals(Resolve(ap.current, Acted.path), single_value(Acted.remove))
     /\ (/\ pc = "hand" /\ k' = k + 1 /\ ap'.strategy = "Strict"
         /\ Len(Acted.path) > 0 /\ ActedLast.t = "Key" /\ ActedParent.t = "Object"
         /\ ActedLast.v \in DOMAIN ActedParent.v
         /\ Len(Acted.remove) = 0)
          => ap'.outcome.kind = "Err"]_vars

\* a strict hunk that popped two elements of an array under a key
C26_Witness ==
  /\ OneApplied
  /\ ap.strategy = "Strict"
  /\ ap.outcome.kind = "Ok"
  /\ Len(diff[1].path) = 2
  /\ diff[1].path[2].t = "Index"
  /\ Len(diff[1].remove) = 2
  /\ base.t = "Object"
  /\ ap.current # base

\* a strict hunk with at most one line of context on either side, run at an index of
\* the root array
RootHunkApplied ==
  /\ OneApplied
  /\ ap.strategy = "Strict"
  /\ base.t = "Array"
  /\ Len(diff[1].path) = 1
  /\ diff[1].path[1].t = "Index"
  /\ diff[1].path[1].v >= 0
  /\ Len(diff[1].before) <= 1
  /\ Len(diff[1].after) <= 1
HunkIndex == diff[1].path[1].v

\* C27: a Void context entry stands for an end of the array. A strict hunk at index i
\* of the root array whose before is Void fails with a PatchError unless i = 0, and
\* one whose after is Void fails with a PatchError unless i + |remove| is the length of
\* the array.
C27_VoidContextAtEnds ==
  RootHunkApplied =>
    /\ (diff[1].before = <<Void>> /\ HunkIndex # 0) => ap.outcome.kind = "Err"
    /\ (diff[1].after = <<Void>> /\ HunkIndex + Len(diff[1].remove) # Len(base.v))
         => ap.outcome.kind = "Err"

\* the same with a crash of the process counted as a failure
C27_VoidContextNeverAccepted ==
  RootHunkApplied =>
    /\ (diff[1].before = <<Void>> /\ HunkIndex # 0) => ap.outcome.kind # "Ok"
    /\ (diff[1].after = <<Void>> /\ HunkIndex + Len(diff[1].remove) # Len(base.v))
         => ap.outcome.kind # "Ok"

\* the metadata in force at each element of a diff, by forward inheritance
Effective(elements) == ActiveMetadata(elements, 1, NoMetadata)

\* C28: reverse preserves metadata inheritance. For every diff that reverse accepts,
\* the metadata in force at the counterpart of an element in the reversed diff (the
\* elements come back in reverse order) is the metadata that was in force at the
\* element itself; an element under no metadata has a counterpart under none.
C28_ReverseKeepsInheritance ==
  (pc = "reversed once" /\ reversed.kind = "Ok") =>
    /\ Len(reversed.diff) = Len(diff)
    /\ \A j \in 1..Len(diff) :
         Effective(reversed.diff)[Len(diff) + 1 - j] = Effective(diff)[j]

\* C30: every element of a diff made by the engine is meaningful. Its remove or its
\* add is non-empty, and render_patch, which refuses an element with neither, does
\* not refuse the diff as empty.
C30_ElementsMeaningful ==
  /\ pc # "start" =>
       \A i \in 1..Len(diff) : Len(diff[i].remove) # 0 \/ Len(diff[i].add) # 0
  /\ pc \in {"rendered", "replayed"} =>
       (rendered.kind = "Ok" \/ rendered.msg # "cannot render empty diff element as JSON Patch op")

\* a diff of two hunks of one array, rendered
C30_Witness ==
  /\ pc = "rendered"
  /\ rendered.kind = "Ok"
  /\ Len(diff) >= 2
  /\ Len(diff[1].path) = 1
  /\ Len(diff[1].add) = 0
  /\ Len(diff[2].remove) = 0

====
